---- MODULE Spec2Model ----
(***************************************************************************)
(* gh-download: main, parseArgs, DownloadFromRelease and its helpers      *)
(* (GetRelease, FilterAssets, ListAssets, ListReleases, downloadArchive,   *)
(* downloadAssets) as a state machine.                                     *)
(*                                                                         *)
(* Strings are sequences of tokens.  Text that comes from the user or the  *)
(* server (repository, tag, pattern, directory, asset name) is a sequence  *)
(* of one-character tokens; literal text of a format string is written as  *)
(* one or more tokens.  Concatenation is \o.                               *)
(***************************************************************************)
EXTENDS Integers, Sequences, FiniteSets, TLC

VARIABLES
    cfg,        \* config.Config of the run
    pc,         \* position of the run inside DownloadFromRelease and its callees
    err,        \* error returned by DownloadFromRelease (NoErr: nil)
    client,     \* TRUE once api.DefaultRESTClient() returned a client
    requests,   \* every HTTP request issued so far, in order
    out,        \* lines written to standard output, in order
    warnings,   \* lines written to standard error, in order
    release,    \* the release GetRelease returned
    matching,   \* matchingAssets
    idx,        \* position of the asset loop in matching (1-based)
    dirs,       \* directories created by os.MkdirAll
    files,      \* path -> content of every file on disk
    touched,    \* paths created or truncated by os.Create during the run
    bodyOpen,   \* number of response bodies open
    fileOpen,   \* number of files open
    branch,     \* the branch of DownloadFromRelease the run entered
    listed,     \* the releases ListReleases decoded
    args,       \* os.Args[1:], the command line of the process
    exit        \* exit code of the process ("running" until it exits)

vars == <<cfg, pc, err, client, requests, out, warnings, release, matching, idx,
          dirs, files, touched, bodyOpen, fileOpen, branch, listed, args, exit>>

----------------------------------------------------------------------------
(* Strings *)

Drop(s, n) == SubSeq(s, n + 1, Len(s))

Take(s, n) == SubSeq(s, 1, n)

\* F applied to the value x
Let(x, F(_)) == F(x)

\* strings.Contains
Contains(s, sub) ==
    \E i \in 0..(Len(s) - Len(sub)) : SubSeq(s, i + 1, i + Len(sub)) = sub

\* strings.ReplaceAll for a one-character old and new
ReplaceAll(s, old, new) == [i \in 1..Len(s) |-> IF s[i] = old THEN new ELSE s[i]]

\* All sequences over S of length at most n
RECURSIVE SeqsUpTo(_, _)
SeqsUpTo(S, n) ==
    IF n = 0 THEN {<<>>}
    ELSE LET shorter == SeqsUpTo(S, n - 1)
         IN  shorter \cup {Append(s, x) : s \in shorter, x \in S}

\* Byte values of the characters the model uses (order of a character range)
CharOrd(c) ==
    CASE c = "*"  -> 42
      [] c = "-"  -> 45
      [] c = "."  -> 46
      [] c = "/"  -> 47
      [] c = "?"  -> 63
      [] c = "["  -> 91
      [] c = "\\" -> 92
      [] c = "]"  -> 93
      [] c = "^"  -> 94
      [] c = "a"  -> 97
      [] c = "b"  -> 98
      [] c = "c"  -> 99
      [] OTHER    -> 120

----------------------------------------------------------------------------
(* path.Match of the Go standard library, as called by FilterAssets *)

\* scanChunk: index (1-based) of the first '*' outside a character class at
\* or after i, Len(p) + 1 when there is none
RECURSIVE ScanIdx(_, _, _)
ScanIdx(p, i, inrange) ==
    IF i > Len(p) THEN i
    ELSE IF p[i] = "\\" THEN ScanIdx(p, IF i + 1 <= Len(p) THEN i + 2 ELSE i + 1, inrange)
    ELSE IF p[i] = "[" THEN ScanIdx(p, i + 1, TRUE)
    ELSE IF p[i] = "]" THEN ScanIdx(p, i + 1, FALSE)
    ELSE IF p[i] = "*" /\ ~inrange THEN i
    ELSE ScanIdx(p, i + 1, inrange)

RECURSIVE StripStars(_)
StripStars(p) == IF p # <<>> /\ p[1] = "*" THEN StripStars(Tail(p)) ELSE p

scanChunk(pattern) ==
    Let(StripStars(pattern), LAMBDA p :
    Let(ScanIdx(p, 1, FALSE), LAMBDA i :
        [star |-> Len(p) < Len(pattern), chunk |-> Take(p, i - 1), rest |-> Drop(p, i - 1)]))

\* getEsc: one character of a character class, possibly escaped
getEsc(chunk) ==
    IF chunk = <<>> \/ chunk[1] = "-" \/ chunk[1] = "]"
    THEN [err |-> TRUE, r |-> "", nchunk |-> <<>>]
    ELSE LET c1 == IF chunk[1] = "\\" THEN Tail(chunk) ELSE chunk
         IN  IF c1 = <<>> THEN [err |-> TRUE, r |-> "", nchunk |-> <<>>]
             ELSE [err |-> Len(c1) = 1, r |-> c1[1], nchunk |-> Tail(c1)]

\* the range loop of a character class; r is the rune read from the name
\* (-1 when the match has already failed and nothing is read)
RECURSIVE ParseRanges(_, _, _, _)
ParseRanges(chunk, r, match, nrange) ==
    IF chunk # <<>> /\ chunk[1] = "]" /\ nrange > 0
    THEN [err |-> FALSE, chunk |-> Tail(chunk), match |-> match]
    ELSE Let(getEsc(chunk), LAMBDA lo :
         IF lo.err THEN [err |-> TRUE, chunk |-> <<>>, match |-> FALSE]
         ELSE IF lo.nchunk[1] = "-"
         THEN Let(getEsc(Tail(lo.nchunk)), LAMBDA hi :
                  IF hi.err THEN [err |-> TRUE, chunk |-> <<>>, match |-> FALSE]
                  ELSE ParseRanges(hi.nchunk, r,
                           match \/ (CharOrd(lo.r) <= r /\ r <= CharOrd(hi.r)),
                           nrange + 1))
         ELSE ParseRanges(lo.nchunk, r, match \/ CharOrd(lo.r) = r, nrange + 1))

\* matchChunk: after the match has failed the loop goes on over the chunk to
\* check that it is well formed, without reading s
RECURSIVE matchChunkLoop(_, _, _)
matchChunkLoop(chunk, s, wasFailed) ==
    IF chunk = <<>>
    THEN IF wasFailed THEN [rest |-> <<>>, ok |-> FALSE, err |-> FALSE]
         ELSE [rest |-> s, ok |-> TRUE, err |-> FALSE]
    ELSE
    LET failed == wasFailed \/ s = <<>>
    IN  CASE chunk[1] = "[" ->
               LET r  == IF failed THEN -1 ELSE CharOrd(s[1])
                   s1 == IF failed THEN s ELSE Tail(s)
                   c1 == Tail(chunk)
                   negated == c1 # <<>> /\ c1[1] = "^"
                   c2 == IF negated THEN Tail(c1) ELSE c1
               IN  Let(ParseRanges(c2, r, FALSE, 0), LAMBDA cls :
                       IF cls.err THEN [rest |-> <<>>, ok |-> FALSE, err |-> TRUE]
                       ELSE matchChunkLoop(cls.chunk, s1, failed \/ cls.match = negated))
          [] chunk[1] = "?" ->
               IF failed THEN matchChunkLoop(Tail(chunk), s, TRUE)
               ELSE matchChunkLoop(Tail(chunk), Tail(s), s[1] = "/")
          [] chunk[1] = "\\" ->
               IF Len(chunk) = 1 THEN [rest |-> <<>>, ok |-> FALSE, err |-> TRUE]
               ELSE IF failed THEN matchChunkLoop(Drop(chunk, 2), s, TRUE)
               ELSE matchChunkLoop(Drop(chunk, 2), Tail(s), chunk[2] # s[1])
          [] OTHER ->
               IF failed THEN matchChunkLoop(Tail(chunk), s, TRUE)
               ELSE matchChunkLoop(Tail(chunk), Tail(s), chunk[1] # s[1])

matchChunk(chunk, s) == matchChunkLoop(chunk, s, FALSE)

\* the loop "for i := 0; i < len(name) && name[i] != '/'; i++" of Match:
\* look for a match of the chunk after skipping i+1 bytes
RECURSIVE StarLoop(_, _, _, _)
StarLoop(chunk, name, i, lastChunk) ==
    IF ~(i < Len(name) /\ name[i + 1] # "/")
    THEN [found |-> FALSE, err |-> FALSE, t |-> <<>>]
    ELSE Let(matchChunk(chunk, Drop(name, i + 1)), LAMBDA m :
             IF m.ok /\ ~(lastChunk /\ Len(m.rest) > 0)
             THEN [found |-> TRUE, err |-> FALSE, t |-> m.rest]
             ELSE IF ~m.ok /\ m.err THEN [found |-> FALSE, err |-> TRUE, t |-> <<>>]
             ELSE StarLoop(chunk, name, i + 1, lastChunk))

\* "check that the remainder of the pattern is syntactically valid"
RECURSIVE RestIsBad(_)
RestIsBad(pattern) ==
    IF pattern = <<>> THEN FALSE
    ELSE Let(scanChunk(pattern), LAMBDA sc :
             matchChunk(sc.chunk, <<>>).err \/ RestIsBad(sc.rest))

\* Match after the chunk sc.chunk failed to match at the start of name
\* without a syntax error: the star loop, then the check of the remainder
MatchAfterStar(sc, st) ==
    IF st.found THEN [next |-> TRUE, name |-> st.t, matched |-> FALSE, err |-> FALSE]
    ELSE IF st.err THEN [next |-> FALSE, name |-> <<>>, matched |-> FALSE, err |-> TRUE]
    ELSE [next |-> FALSE, name |-> <<>>, matched |-> FALSE, err |-> RestIsBad(sc.rest)]

\* one round of the loop of Match over the chunk sc of the pattern: either go
\* on with the rest of the pattern and of the name (next), or return
MatchChunkOf(sc, name, m) ==
    IF m.ok /\ (m.rest = <<>> \/ sc.rest # <<>>)
    THEN [next |-> TRUE, name |-> m.rest, matched |-> FALSE, err |-> FALSE]
    ELSE IF m.err THEN [next |-> FALSE, name |-> <<>>, matched |-> FALSE, err |-> TRUE]
    ELSE MatchAfterStar(sc, IF sc.star THEN StarLoop(sc.chunk, name, 0, sc.rest = <<>>)
                            ELSE [found |-> FALSE, err |-> FALSE, t |-> <<>>])

MatchRound(sc, name) ==
    IF sc.star /\ sc.chunk = <<>>
    THEN [next |-> FALSE, name |-> <<>>,
          matched |-> \A i \in 1..Len(name) : name[i] # "/", err |-> FALSE]
    ELSE MatchChunkOf(sc, name, matchChunk(sc.chunk, name))

\* path.Match(pattern, name): [matched, err]
RECURSIVE Match(_, _)
Match(pattern, name) ==
    IF pattern = <<>> THEN [matched |-> name = <<>>, err |-> FALSE]
    ELSE Let(scanChunk(pattern), LAMBDA sc :
         Let(MatchRound(sc, name), LAMBDA round :
             IF round.next THEN Match(sc.rest, round.name)
             ELSE [matched |-> round.matched, err |-> round.err]))

----------------------------------------------------------------------------
(* Errors.  An error is its message; NoErr is the nil error. *)

NoErr == <<>>

\* fmt.Errorf("<context>: %w", err)
Wrap(context, e) == context \o <<": ">> \o e

\* path.ErrBadPattern
ErrBadPattern == <<"syntax error in pattern">>

\* errors the HTTP layer can return from Get and Request
HttpErrors == {<<"HTTP 404: Not Found">>, <<"HTTP 500: Server Error">>}

\* errors of os.MkdirAll, os.Create, io.Copy and of the client constructors
OsError == <<"permission denied">>

Quoted(s) == <<"'">> \o s \o <<"'">>

\* the %d verb
Decimal(n) == <<ToString(n)>>

----------------------------------------------------------------------------
(* package github *)

\* GetRelease: the endpoint of its one client.Get
GetReleaseEndpoint(repo, tag) ==
    IF tag = <<>>
    THEN <<"repos/">> \o repo \o <<"/releases/latest">>
    ELSE <<"repos/">> \o repo \o <<"/releases/tags/">> \o tag

\* GetRelease that asks for the latest release when the request by tag failed
GetReleaseWithFallback(repo, tag, resp) ==
    [requests |-> << [method |-> "GET", endpoint |-> GetReleaseEndpoint(repo, tag),
                      via |-> "rest"] >>
                  \o (IF ~resp.ok /\ tag # <<>>
                      THEN << [method |-> "GET", endpoint |-> GetReleaseEndpoint(repo, <<>>),
                               via |-> "rest"] >>
                      ELSE <<>>),
     release  |-> IF resp.ok THEN resp.release ELSE <<>>,
     err      |-> IF resp.ok THEN NoErr ELSE resp.err]

\* GetRelease that adds a context of its own to the error of client.Get
GetReleaseWrappingError(repo, tag, resp) ==
    [requests |-> << [method |-> "GET", endpoint |-> GetReleaseEndpoint(repo, tag),
                      via |-> "rest"] >>,
     release  |-> IF resp.ok THEN resp.release ELSE <<>>,
     err      |-> IF resp.ok THEN NoErr ELSE Wrap(<<"release request failed">>, resp.err)]

\* GetRelease: resp is the outcome of client.Get, an error of the HTTP layer
\* or the decoded release
GetRelease(repo, tag, resp) ==
    [requests |-> << [method |-> "GET", endpoint |-> GetReleaseEndpoint(repo, tag),
                      via |-> "rest"] >>,
     release  |-> IF resp.ok THEN resp.release ELSE <<>>,
     err      |-> IF resp.ok THEN NoErr ELSE resp.err]

\* the loop of FilterAssets from asset i on, matched being the slice so far
RECURSIVE FilterLoop(_, _, _, _)
FilterLoop(assets, pattern, i, matched) ==
    IF i > Len(assets) THEN [assets |-> matched, err |-> NoErr]
    ELSE Let(Match(pattern, assets[i].Name), LAMBDA m :
             IF m.err
             THEN [assets |-> <<>>,
                   err |-> Wrap(<<"invalid pattern ">> \o Quoted(pattern), ErrBadPattern)]
             ELSE FilterLoop(assets, pattern, i + 1,
                             IF m.matched THEN Append(matched, assets[i]) ELSE matched))

Reverse(s) == [i \in 1..Len(s) |-> s[Len(s) + 1 - i]]

\* FilterAssets that puts each match in front of the earlier ones
FilterAssetsPrepending(assets, pattern) ==
    IF pattern = <<"*">> \/ pattern = <<>>
    THEN [assets |-> assets, err |-> NoErr]
    ELSE Let(FilterLoop(assets, pattern, 1, <<>>), LAMBDA f :
             [assets |-> Reverse(f.assets), err |-> f.err])

\* FilterAssets without the fast path for the empty pattern
FilterAssetsStarOnly(assets, pattern) ==
    IF pattern = <<"*">>
    THEN [assets |-> assets, err |-> NoErr]
    ELSE FilterLoop(assets, pattern, 1, <<>>)

\* FilterAssets that drops the error of path.Match
FilterAssetsIgnoringBadPattern(assets, pattern) ==
    IF pattern = <<"*">> \/ pattern = <<>>
    THEN [assets |-> assets, err |-> NoErr]
    ELSE Let(FilterLoop(assets, pattern, 1, <<>>), LAMBDA f :
             [assets |-> f.assets, err |-> NoErr])

FilterAssets(assets, pattern) ==
    IF pattern = <<"*">> \/ pattern = <<>>
    THEN [assets |-> assets, err |-> NoErr]
    ELSE FilterLoop(assets, pattern, 1, <<>>)

\* the three lines (and the separating blank line) ListAssets prints for
\* matchingAssets[i]
AssetEntry(matchingAssets, i) ==
    << Decimal(i) \o <<". ">> \o matchingAssets[i].Name,
       <<"   Size: ">> \o Decimal(matchingAssets[i].Size) \o <<" bytes">>,
       <<"   Content-Type: ">> \o matchingAssets[i].ContentType >>
    \o (IF i < Len(matchingAssets) THEN << <<>> >> ELSE <<>>)

RECURSIVE AssetEntries(_, _)
AssetEntries(matchingAssets, i) ==
    IF i > Len(matchingAssets) THEN <<>>
    ELSE AssetEntry(matchingAssets, i) \o AssetEntries(matchingAssets, i + 1)

NoAssetsFoundLine(pattern) == <<"No assets found matching pattern ">> \o Quoted(pattern)

\* ListAssets that treats no match as download mode does, as an error
ListAssetsNoMatchIsError(assets, pattern) ==
    Let(FilterAssets(assets, pattern), LAMBDA f :
        IF f.err # NoErr
        THEN [out |-> <<>>, err |-> Wrap(<<"failed to filter assets">>, f.err)]
        ELSE IF Len(f.assets) = 0
        THEN [out |-> <<>>, err |-> <<"no assets found matching pattern ">> \o Quoted(pattern)]
        ELSE [out |-> << <<>>, <<"Assets matching pattern ">> \o Quoted(pattern) \o <<":">> >>
                      \o AssetEntries(f.assets, 1)
                      \o << <<>>, <<"Total: ">> \o Decimal(Len(f.assets)) \o <<" assets">> >>,
              err |-> NoErr])

\* ListAssets that returns the error of FilterAssets as it is
ListAssetsUnwrapped(assets, pattern) ==
    Let(FilterAssets(assets, pattern), LAMBDA f :
        IF f.err # NoErr
        THEN [out |-> <<>>, err |-> f.err]
        ELSE IF Len(f.assets) = 0
        THEN [out |-> << NoAssetsFoundLine(pattern) >>, err |-> NoErr]
        ELSE [out |-> << <<>>, <<"Assets matching pattern ">> \o Quoted(pattern) \o <<":">> >>
                      \o AssetEntries(f.assets, 1)
                      \o << <<>>, <<"Total: ">> \o Decimal(Len(f.assets)) \o <<" assets">> >>,
              err |-> NoErr])

\* ListAssets: the lines it prints and the error it returns
ListAssets(assets, pattern) ==
    Let(FilterAssets(assets, pattern), LAMBDA f :
        IF f.err # NoErr
        THEN [out |-> <<>>, err |-> Wrap(<<"failed to filter assets">>, f.err)]
        ELSE IF Len(f.assets) = 0
        THEN [out |-> << NoAssetsFoundLine(pattern) >>, err |-> NoErr]
        ELSE [out |-> << <<>>, <<"Assets matching pattern ">> \o Quoted(pattern) \o <<":">> >>
                      \o AssetEntries(f.assets, 1)
                      \o << <<>>, <<"Total: ">> \o Decimal(Len(f.assets)) \o <<" assets">> >>,
              err |-> NoErr])

\* formatDate that never cuts the time of day off
formatDateWhole(dateStr) == dateStr

\* formatDate
formatDate(dateStr) ==
    IF dateStr = <<>> THEN <<>>
    ELSE IF Len(dateStr) >= 10 THEN Take(dateStr, 10)
    ELSE dateStr

\* StatusList that appends "prerelease" before "draft"
StatusListPrereleaseFirst(rel) ==
    LET status == (IF rel.Prerelease THEN << <<"prerelease">> >> ELSE <<>>)
                  \o (IF rel.Draft THEN << <<"draft">> >> ELSE <<>>)
    IN  IF Len(status) = 0 THEN <<>>
        ELSE IF Len(status) = 1 THEN status[1]
        ELSE status[1] \o <<", ">> \o status[2]

\* strings.Join(status, ", ")
StatusList(rel) ==
    LET status == (IF rel.Draft THEN << <<"draft">> >> ELSE <<>>)
                  \o (IF rel.Prerelease THEN << <<"prerelease">> >> ELSE <<>>)
    IN  IF Len(status) = 0 THEN <<>>
        ELSE IF Len(status) = 1 THEN status[1]
        ELSE status[1] \o <<", ">> \o status[2]

\* ReleaseLine that shows every tag that is not empty
ReleaseLineAlwaysTag(releases, i) ==
    Decimal(i) \o <<". ">> \o releases[i].Name
    \o (IF releases[i].TagName # <<>>
        THEN <<" (">> \o releases[i].TagName \o <<")">> ELSE <<>>)
    \o (IF StatusList(releases[i]) # <<>>
        THEN <<" [">> \o StatusList(releases[i]) \o <<"]">> ELSE <<>>)

\* the numbered line of releases[i]
ReleaseLine(releases, i) ==
    Decimal(i) \o <<". ">> \o releases[i].Name
    \o (IF releases[i].TagName # <<>> /\ releases[i].TagName # releases[i].Name
        THEN <<" (">> \o releases[i].TagName \o <<")">> ELSE <<>>)
    \o (IF StatusList(releases[i]) # <<>>
        THEN <<" [">> \o StatusList(releases[i]) \o <<"]">> ELSE <<>>)

ReleaseEntry(releases, i) ==
    << ReleaseLine(releases, i) >>
    \o (IF releases[i].PublishedAt # <<>>
        THEN << <<"   Published: ">> \o formatDate(releases[i].PublishedAt) >> ELSE <<>>)
    \o << <<"   Assets: ">> \o Decimal(Len(releases[i].Assets)) >>
    \o (IF i < Len(releases) THEN << <<>> >> ELSE <<>>)

RECURSIVE ReleaseEntries(_, _)
ReleaseEntries(releases, i) ==
    IF i > Len(releases) THEN <<>>
    ELSE ReleaseEntry(releases, i) \o ReleaseEntries(releases, i + 1)

ListReleasesEndpoint(repo) == <<"repos/">> \o repo \o <<"/releases">>

\* ListReleases that returns an error when the repository has no release
ListReleasesEmptyIsError(repo, resp) ==
    [requests |-> << [method |-> "GET", endpoint |-> ListReleasesEndpoint(repo),
                      via |-> "rest"] >>,
     out |-> IF ~resp.ok \/ Len(resp.releases) = 0 THEN <<>>
             ELSE << <<"Releases for ">> \o repo \o <<":">>, <<>> >>
                  \o ReleaseEntries(resp.releases, 1)
                  \o << <<>>, <<"Total: ">> \o Decimal(Len(resp.releases)) \o <<" releases">> >>,
     err |-> IF ~resp.ok THEN Wrap(<<"failed to get releases">>, resp.err)
             ELSE IF Len(resp.releases) = 0 THEN <<"no releases found for ">> \o repo
             ELSE NoErr]

\* ListReleases: resp is the outcome of client.Get
ListReleases(repo, resp) ==
    [requests |-> << [method |-> "GET", endpoint |-> ListReleasesEndpoint(repo),
                      via |-> "rest"] >>,
     out |-> IF ~resp.ok THEN <<>>
             ELSE IF Len(resp.releases) = 0
             THEN << <<"No releases found for ">> \o repo >>
             ELSE << <<"Releases for ">> \o repo \o <<":">>, <<>> >>
                  \o ReleaseEntries(resp.releases, 1)
                  \o << <<>>, <<"Total: ">> \o Decimal(Len(resp.releases)) \o <<" releases">> >>,
     err |-> IF resp.ok THEN NoErr ELSE Wrap(<<"failed to get releases">>, resp.err)]

----------------------------------------------------------------------------
(* path/filepath of the Go standard library (Unix), as called by package
   download *)

\* the components of a path between its separators
RECURSIVE SplitPath(_, _)
SplitPath(path, cur) ==
    IF path = <<>> THEN << cur >>
    ELSE IF path[1] = "/" THEN << cur >> \o SplitPath(Tail(path), <<>>)
    ELSE SplitPath(Tail(path), Append(cur, path[1]))

RECURSIVE JoinComponents(_)
JoinComponents(comps) ==
    IF comps = <<>> THEN <<>>
    ELSE IF Len(comps) = 1 THEN comps[1]
    ELSE comps[1] \o <<"/">> \o JoinComponents(Tail(comps))

\* filepath.Clean's pass over the components: drop empty ones and ".",
\* let ".." remove the component before it
RECURSIVE CleanComponents(_, _, _)
CleanComponents(comps, acc, rooted) ==
    IF comps = <<>> THEN acc
    ELSE LET c == comps[1]
         IN  IF c = <<>> \/ c = <<".">> THEN CleanComponents(Tail(comps), acc, rooted)
             ELSE IF c = <<".", ".">>
             THEN IF acc # <<>> /\ acc[Len(acc)] # <<".", ".">>
                  THEN CleanComponents(Tail(comps), Take(acc, Len(acc) - 1), rooted)
                  ELSE IF rooted THEN CleanComponents(Tail(comps), acc, rooted)
                  ELSE CleanComponents(Tail(comps), Append(acc, c), rooted)
             ELSE CleanComponents(Tail(comps), Append(acc, c), rooted)

\* filepath.Clean
Clean(path) ==
    IF path = <<>> THEN <<".">>
    ELSE LET rooted == path[1] = "/"
             body   == JoinComponents(CleanComponents(SplitPath(path, <<>>), <<>>, rooted))
         IN  IF rooted THEN <<"/">> \o body
             ELSE IF body = <<>> THEN <<".">>
             ELSE body

\* filepath.Join(dir, name)
Join(dir, name) ==
    IF dir = <<>> /\ name = <<>> THEN <<>>
    ELSE IF dir = <<>> THEN Clean(name)
    ELSE IF name = <<>> THEN Clean(dir)
    ELSE Clean(dir \o <<"/">> \o name)

----------------------------------------------------------------------------
(* package download: the pure parts *)

\* ReleaseHeader that annotates with the tag of the release that was fetched
ReleaseHeaderWithReleaseTag(c, rel) ==
    <<"Release: ">> \o rel.Name
    \o (IF rel.TagName # <<>> THEN <<" (tag: ">> \o rel.TagName \o <<")">> ELSE <<" (latest)">>)
    \o <<" from ">> \o c.Repository

\* the header line DownloadFromRelease prints after GetRelease
ReleaseHeader(c, rel) ==
    <<"Release: ">> \o rel.Name
    \o (IF c.Tag # <<>> THEN <<" (tag: ">> \o c.Tag \o <<")">> ELSE <<" (latest)">>)
    \o <<" from ">> \o c.Repository

\* the preview DownloadFromRelease prints before downloadAssets
RECURSIVE PreviewEntries(_, _)
PreviewEntries(assets, i) ==
    IF i > Len(assets) THEN <<>>
    ELSE << <<"  - ">> \o assets[i].Name \o <<" (">> \o Decimal(assets[i].Size) \o <<" bytes)">> >>
         \o PreviewEntries(assets, i + 1)

PreviewLines(assets, dir) ==
    << <<"Found ">> \o Decimal(Len(assets)) \o <<" matching assets to download to ">>
       \o dir \o <<":">> >>
    \o PreviewEntries(assets, 1)

NoMatchError(pattern) == <<"no assets found matching pattern ">> \o Quoted(pattern)

\* SelectAssets without the check for an empty selection
SelectAssetsNoEmptyCheck(assets, pattern, dir) ==
    Let(FilterAssets(assets, pattern), LAMBDA f :
        IF f.err # NoErr
        THEN [matching |-> <<>>, out |-> <<>>,
              err |-> Wrap(<<"failed to filter assets">>, f.err)]
        ELSE [matching |-> f.assets, out |-> PreviewLines(f.assets, dir), err |-> NoErr])

\* DownloadFromRelease, lines 50-62: the assets to download and the preview
\* printed for them, or the error returned instead
SelectAssets(assets, pattern, dir) ==
    Let(FilterAssets(assets, pattern), LAMBDA f :
        IF f.err # NoErr
        THEN [matching |-> <<>>, out |-> <<>>,
              err |-> Wrap(<<"failed to filter assets">>, f.err)]
        ELSE IF Len(f.assets) = 0
        THEN [matching |-> <<>>, out |-> <<>>, err |-> NoMatchError(pattern)]
        ELSE [matching |-> f.assets, out |-> PreviewLines(f.assets, dir), err |-> NoErr])

\* ValidArchiveFormat that accepts every format
ValidArchiveFormatAny(archiveFormat) == archiveFormat # <<>>

\* downloadArchive: the format check
ValidArchiveFormat(archiveFormat) ==
    archiveFormat = <<"z", "i", "p">> \/ archiveFormat = <<"t", "a", "r", ".", "g", "z">>

ArchiveFormatError == <<"archive format must be", " 'zip' or 'tar.gz'">>

\* downloadArchive: tagRef
TagRef(tag) == IF tag = <<>> THEN <<"H", "E", "A", "D">> ELSE tag

\* downloadArchive: endpoint
ArchiveEndpoint(repo, tag, archiveFormat) ==
    IF archiveFormat = <<"z", "i", "p">>
    THEN <<"repos/">> \o repo \o <<"/zipball/">> \o TagRef(tag)
    ELSE <<"repos/">> \o repo \o <<"/tarball/">> \o TagRef(tag)

\* ArchiveFilename that keeps the '/' of the repository
ArchiveFilenameKeepingSlash(repo, tag, archiveFormat) ==
    IF archiveFormat = <<"z", "i", "p">>
    THEN repo \o <<"-">> \o TagRef(tag) \o <<".", "z", "i", "p">>
    ELSE repo \o <<"-">> \o TagRef(tag) \o <<".", "t", "a", "r", ".", "g", "z">>

\* downloadArchive: filename
ArchiveFilename(repo, tag, archiveFormat) ==
    IF archiveFormat = <<"z", "i", "p">>
    THEN ReplaceAll(repo, "/", "-") \o <<"-">> \o TagRef(tag) \o <<".", "z", "i", "p">>
    ELSE ReplaceAll(repo, "/", "-") \o <<"-">> \o TagRef(tag)
         \o <<".", "t", "a", "r", ".", "g", "z">>

\* BranchAfterHeader with the Archive check before the List check
BranchAfterHeaderArchiveFirst(c) ==
    IF c.Archive # <<>> THEN "archive"
    ELSE IF c.List THEN "list_assets"
    ELSE "filter"

\* the branch DownloadFromRelease goes into once the release is printed
BranchAfterHeader(c) ==
    IF c.List THEN "list_assets"
    ELSE IF c.Archive # <<>> THEN "archive"
    ELSE "filter"

\* BranchAfterClient without the Releases check
BranchAfterClientIgnoringReleases(c) == "get_release"

\* the branch DownloadFromRelease goes into once the client exists
BranchAfterClient(c) == IF c.Releases THEN "list_releases" ELSE "get_release"

----------------------------------------------------------------------------
(* Bounds and the inputs of a run *)

MaxAssets == 2      \* assets of a release
MaxReleases == 2    \* releases of a repository
MaxPatLen == 2      \* length of the patterns FilterAssets is applied to

Zip   == <<"z", "i", "p">>
TarGz == <<"t", "a", "r", ".", "g", "z">>

Repositories == {<<>>, <<"o", "/", "r">>}
Tags         == {<<>>, <<"v", "1">>, <<"t", "/", "1">>}
Patterns     == {<<"*">>, <<>>, <<"a">>, <<"c">>, <<"[">>}
Directories  == {<<".">>, <<"d">>}
Archives     == {<<>>, Zip, TarGz, <<"e", "x", "e">>}

Configs ==
    [Repository : Repositories, Tag : Tags, Pattern : Patterns, Directory : Directories,
     Archive : Archives, List : BOOLEAN, Releases : BOOLEAN]

Asset(id, name, size) ==
    [ID |-> id, Name |-> name, Size |-> size, ContentType |-> <<"application/octet-stream">>,
     URL |-> <<"https://api.github.com/assets/", ToString(id)>>]

\* assets a release can hold: two of them have the same name
AssetPool == {Asset(1, <<"a">>, 10), Asset(2, <<"b">>, 20), Asset(3, <<"a">>, 30)}

\* the releases GetRelease can decode
Releases ==
    [Name : {<<"R">>}, TagName : {<<"v", "1">>, <<"v", "2">>}, Draft : {FALSE},
     Prerelease : {FALSE}, PublishedAt : {<<>>}, Assets : SeqsUpTo(AssetPool, MaxAssets)]

Rel(name, tag, draft, pre, published, assets) ==
    [Name |-> name, TagName |-> tag, Draft |-> draft, Prerelease |-> pre,
     PublishedAt |-> published, Assets |-> assets]

\* the releases the releases endpoint can list
ListedReleases ==
    { Rel(<<"R">>, <<"R">>, FALSE, FALSE,
          <<"2", "0", "2", "3", "-", "1", "2", "-", "0", "1", "T">>, <<>>),
      Rel(<<"R">>, <<"v", "1">>, TRUE, FALSE, <<>>, << Asset(1, <<"a">>, 10) >>),
      Rel(<<"R">>, <<>>, FALSE, TRUE, <<"2", "0", "2", "3">>, <<>>),
      Rel(<<>>, <<"v", "1">>, TRUE, TRUE,
          <<"2", "0", "2", "3", "-", "1", "2", "-", "0", "1">>, <<>>) }

\* content of a file: where its bytes came from, and whether all of them arrived
Content(src, complete) == [src |-> src, complete |-> complete]

OldContent == Content(<<"old">>, TRUE)

NoFiles == <<>>

\* the files on disk before the run: none, or one in the target directory
\* under the name of an asset
InitialFiles(c) == {NoFiles, Join(c.Directory, <<"a">>) :> OldContent}

Request(endpoint, via) == [method |-> "GET", endpoint |-> endpoint, via |-> via]

----------------------------------------------------------------------------
(* DownloadFromRelease *)

Init ==
    /\ cfg \in Configs
    /\ pc = "start"
    /\ err = NoErr
    /\ client = FALSE
    /\ requests = <<>>
    /\ out = <<>>
    /\ warnings = <<>>
    /\ release = <<>>
    /\ matching = <<>>
    /\ idx = 0
    /\ dirs = {}
    /\ files \in InitialFiles(cfg)
    /\ touched = {}
    /\ bodyOpen = 0
    /\ fileOpen = 0
    /\ branch = "none"
    /\ listed = <<>>
    /\ args = <<>>
    /\ exit = "running"

\* return e from DownloadFromRelease
Return(e) == err' = e /\ pc' = "done"

\* RepositoryMissing with the check skipped when Releases is set
RepositoryMissingUnlessReleases(c) == c.Repository = <<>> /\ ~c.Releases

RepositoryMissing(c) == c.Repository = <<>>

\* download.go 16-18
CheckRepository ==
    /\ pc = "start"
    /\ IF RepositoryMissing(cfg)
       THEN Return(<<"repository is required">>) /\ branch' = "empty_repository"
       ELSE pc' = "client" /\ UNCHANGED <<err, branch>>
    /\ UNCHANGED <<listed, args, exit, cfg, client, requests, out, warnings, release, matching, idx, dirs,
                   files, touched, bodyOpen, fileOpen>>

\* download.go 20-27: api.DefaultRESTClient(), then the Releases check
CreateClient ==
    /\ pc = "client"
    /\ \E ok \in BOOLEAN :
         IF ok
         THEN client' = TRUE /\ pc' = BranchAfterClient(cfg) /\ UNCHANGED err
         ELSE Return(Wrap(<<"failed to create GitHub client">>, OsError)) /\ UNCHANGED client
    /\ UNCHANGED <<listed, args, exit, cfg, requests, out, warnings, release, matching, idx, dirs, files,
                   touched, bodyOpen, fileOpen, branch>>

\* download.go 26: return github.ListReleases(client, cfg.Repository)
ListReleasesStep ==
    /\ pc = "list_releases"
    /\ \E resp \in {[ok |-> FALSE, err |-> e, releases |-> <<>>] : e \in HttpErrors}
                   \cup {[ok |-> TRUE, err |-> NoErr, releases |-> rs] :
                             rs \in SeqsUpTo(ListedReleases, MaxReleases)} :
         LET r == ListReleases(cfg.Repository, resp)
         IN  /\ requests' = requests \o r.requests
             /\ listed' = resp.releases
             /\ out' = out \o r.out
             /\ Return(r.err)
    /\ branch' = "releases"
    /\ UNCHANGED <<args, exit, cfg, client, warnings, release, matching, idx, dirs, files, touched,
                   bodyOpen, fileOpen>>

\* download.go 29-32
GetReleaseStep ==
    /\ pc = "get_release"
    /\ \E resp \in {[ok |-> FALSE, err |-> e, release |-> <<>>] : e \in HttpErrors}
                   \cup {[ok |-> TRUE, err |-> NoErr, release |-> rel] : rel \in Releases} :
         LET r == GetRelease(cfg.Repository, cfg.Tag, resp)
         IN  /\ requests' = requests \o r.requests
             /\ IF r.err # NoErr
                THEN Return(Wrap(<<"failed to get release">>, r.err)) /\ UNCHANGED release
                ELSE release' = r.release /\ pc' = "header" /\ UNCHANGED err
    /\ UNCHANGED <<listed, args, exit, cfg, client, out, warnings, matching, idx, dirs, files, touched,
                   bodyOpen, fileOpen, branch>>

\* download.go 34-46: the header, then the List and Archive checks
PrintHeader ==
    /\ pc = "header"
    /\ out' = Append(out, ReleaseHeader(cfg, release))
    /\ pc' = BranchAfterHeader(cfg)
    /\ UNCHANGED <<listed, args, exit, cfg, err, client, requests, warnings, release, matching, idx, dirs,
                   files, touched, bodyOpen, fileOpen, branch>>

\* download.go 43: return github.ListAssets(release.Assets, cfg.Pattern)
ListAssetsStep ==
    /\ pc = "list_assets"
    /\ Let(ListAssets(release.Assets, cfg.Pattern), LAMBDA r :
           out' = out \o r.out /\ Return(r.err))
    /\ branch' = "list"
    /\ UNCHANGED <<listed, args, exit, cfg, client, requests, warnings, release, matching, idx, dirs, files,
                   touched, bodyOpen, fileOpen>>

\* the warnings the closes of one return print: the file's first, then the body's
CloseWarnings(fileFails, bodyFails) ==
    (IF fileFails THEN << <<"Warning: failed to close file", ": ", "close error">> >> ELSE <<>>)
    \o (IF bodyFails
        THEN << <<"Warning: failed to close response body", ": ", "close error">> >>
        ELSE <<>>)

\* os.Create(path): the file exists and is empty
Truncated(fs, path, src) == (path :> Content(src, FALSE)) @@ fs

\* io.Copy into the file at path: all of the body, or a part of it on failure
Written(fs, path, src, ok) == (path :> Content(src, ok)) @@ fs

ArchivePath(c) == Join(c.Directory, ArchiveFilename(c.Repository, c.Tag, c.Archive))

\* download.go 47, 67-70: downloadArchive, the format check
ArchiveValidate ==
    /\ pc = "archive"
    /\ branch' = "archive"
    /\ IF ~ValidArchiveFormat(cfg.Archive)
       THEN Return(ArchiveFormatError)
       ELSE pc' = "archive_request" /\ UNCHANGED err
    /\ UNCHANGED <<listed, args, exit, cfg, client, requests, out, warnings, release, matching, idx, dirs,
                   files, touched, bodyOpen, fileOpen>>

\* ArchiveRequest that asks for the archive of the tag of the release fetched
ArchiveRequestOfRelease ==
    /\ pc = "archive_request"
    /\ requests' = Append(requests,
                          Request(ArchiveEndpoint(cfg.Repository, release.TagName, cfg.Archive), "rest"))
    /\ \E resp \in {[ok |-> TRUE, err |-> NoErr]} \cup {[ok |-> FALSE, err |-> e] : e \in HttpErrors} :
         IF resp.ok
         THEN bodyOpen' = bodyOpen + 1 /\ pc' = "archive_mkdir" /\ UNCHANGED err
         ELSE Return(Wrap(<<"failed to download archive">>, resp.err)) /\ UNCHANGED bodyOpen
    /\ UNCHANGED <<listed, args, exit, cfg, client, out, warnings, release, matching, idx, dirs, files,
                   touched, fileOpen, branch>>

\* download.go 72-95: client.Request("GET", endpoint, nil)
ArchiveRequest ==
    /\ pc = "archive_request"
    /\ requests' = Append(requests,
                          Request(ArchiveEndpoint(cfg.Repository, cfg.Tag, cfg.Archive), "rest"))
    /\ \E resp \in {[ok |-> TRUE, err |-> NoErr]} \cup {[ok |-> FALSE, err |-> e] : e \in HttpErrors} :
         IF resp.ok
         THEN bodyOpen' = bodyOpen + 1 /\ pc' = "archive_mkdir" /\ UNCHANGED err
         ELSE Return(Wrap(<<"failed to download archive">>, resp.err)) /\ UNCHANGED bodyOpen
    /\ UNCHANGED <<listed, args, exit, cfg, client, out, warnings, release, matching, idx, dirs, files,
                   touched, fileOpen, branch>>

\* download.go 97-99: os.MkdirAll; on failure the deferred close of the body runs
ArchiveMkdir ==
    /\ pc = "archive_mkdir"
    /\ \E ok \in BOOLEAN, bodyFails \in BOOLEAN :
         IF ok
         THEN /\ ~bodyFails
              /\ dirs' = dirs \cup {cfg.Directory}
              /\ pc' = "archive_create"
              /\ UNCHANGED <<err, bodyOpen, warnings>>
         ELSE /\ Return(Wrap(<<"failed to create directory">>, OsError))
              /\ bodyOpen' = bodyOpen - 1
              /\ warnings' = warnings \o CloseWarnings(FALSE, bodyFails)
              /\ UNCHANGED dirs
    /\ UNCHANGED <<listed, args, exit, cfg, client, requests, out, release, matching, idx, files, touched,
                   fileOpen, branch>>

\* download.go 101-110: os.Create; on failure the deferred close of the body runs
ArchiveCreate ==
    /\ pc = "archive_create"
    /\ \E ok \in BOOLEAN, bodyFails \in BOOLEAN :
         IF ok
         THEN /\ ~bodyFails
              /\ files' = Truncated(files, ArchivePath(cfg), requests[Len(requests)].endpoint)
              /\ touched' = touched \cup {ArchivePath(cfg)}
              /\ fileOpen' = fileOpen + 1
              /\ pc' = "archive_copy"
              /\ UNCHANGED <<err, bodyOpen, warnings>>
         ELSE /\ Return(Wrap(<<"failed to create file">>, OsError))
              /\ bodyOpen' = bodyOpen - 1
              /\ warnings' = warnings \o CloseWarnings(FALSE, bodyFails)
              /\ UNCHANGED <<files, touched, fileOpen>>
    /\ UNCHANGED <<listed, args, exit, cfg, client, requests, out, release, matching, idx, dirs, branch>>

\* download.go 112-118: io.Copy, the report, and both deferred closes
ArchiveCopy ==
    /\ pc = "archive_copy"
    /\ \E ok \in BOOLEAN, fileFails \in BOOLEAN, bodyFails \in BOOLEAN :
         /\ files' = Written(files, ArchivePath(cfg), requests[Len(requests)].endpoint, ok)
         /\ IF ok
            THEN out' = Append(out, <<"Downloaded archive: ">> \o ArchivePath(cfg))
                 /\ Return(NoErr)
            ELSE Return(Wrap(<<"failed to write file">>, OsError)) /\ UNCHANGED out
         /\ fileOpen' = fileOpen - 1
         /\ bodyOpen' = bodyOpen - 1
         /\ warnings' = warnings \o CloseWarnings(fileFails, bodyFails)
    /\ UNCHANGED <<listed, args, exit, cfg, client, requests, release, matching, idx, dirs, touched, branch>>

\* download.go 50-62: filter, the no-match check and the preview
FilterStep ==
    /\ pc = "filter"
    /\ branch' = "assets"
    /\ Let(SelectAssets(release.Assets, cfg.Pattern, cfg.Directory), LAMBDA sel :
           /\ matching' = sel.matching
           /\ out' = out \o sel.out
           /\ IF sel.err # NoErr THEN Return(sel.err)
              ELSE pc' = "assets_mkdir" /\ UNCHANGED err)
    /\ UNCHANGED <<listed, args, exit, cfg, client, requests, warnings, release, idx, dirs, files, touched,
                   bodyOpen, fileOpen>>

\* download.go 64, 122-124: downloadAssets, os.MkdirAll
AssetsMkdir ==
    /\ pc = "assets_mkdir"
    /\ \E ok \in BOOLEAN :
         IF ok
         THEN dirs' = dirs \cup {cfg.Directory} /\ pc' = "assets_client" /\ UNCHANGED err
         ELSE Return(Wrap(<<"failed to create directory">>, OsError)) /\ UNCHANGED dirs
    /\ UNCHANGED <<listed, args, exit, cfg, client, requests, out, warnings, release, matching, idx, files,
                   touched, bodyOpen, fileOpen, branch>>

\* download.go 127-133: api.NewRESTClient(opts)
NewDownloadClient ==
    /\ pc = "assets_client"
    /\ \E ok \in BOOLEAN :
         IF ok
         THEN idx' = 1 /\ pc' = "asset_loop" /\ UNCHANGED err
         ELSE Return(Wrap(<<"failed to create download client">>, OsError)) /\ UNCHANGED idx
    /\ UNCHANGED <<listed, args, exit, cfg, client, requests, out, warnings, release, matching, dirs, files,
                   touched, bodyOpen, fileOpen, branch>>

AssetPath(c, asset) == Join(c.Directory, asset.Name)

\* AssetRequest that creates the file of the asset before it sends the request
AssetRequestCreatingFirst ==
    /\ pc = "asset_loop"
    /\ idx <= Len(matching)
    /\ out' = Append(out, <<"Downloading ">> \o matching[idx].Name \o <<"... ">>)
    /\ files' = Truncated(files, AssetPath(cfg, matching[idx]), matching[idx].URL)
    /\ touched' = touched \cup {AssetPath(cfg, matching[idx])}
    /\ requests' = Append(requests, Request(matching[idx].URL, "download"))
    /\ \E resp \in {[ok |-> TRUE, err |-> NoErr]} \cup {[ok |-> FALSE, err |-> e] : e \in HttpErrors} :
         IF resp.ok
         THEN bodyOpen' = bodyOpen + 1 /\ pc' = "asset_create" /\ UNCHANGED err
         ELSE /\ Return(Wrap(<<"failed to download ">> \o matching[idx].Name, resp.err))
              /\ UNCHANGED bodyOpen
    /\ UNCHANGED <<listed, args, exit, cfg, client, warnings, release, matching, idx, dirs,
                   fileOpen, branch>>

\* download.go 135-141: the next asset, downloadClient.Request("GET", asset.URL, nil)
AssetRequest ==
    /\ pc = "asset_loop"
    /\ idx <= Len(matching)
    /\ out' = Append(out, <<"Downloading ">> \o matching[idx].Name \o <<"... ">>)
    /\ requests' = Append(requests, Request(matching[idx].URL, "download"))
    /\ \E resp \in {[ok |-> TRUE, err |-> NoErr]} \cup {[ok |-> FALSE, err |-> e] : e \in HttpErrors} :
         IF resp.ok
         THEN bodyOpen' = bodyOpen + 1 /\ pc' = "asset_create" /\ UNCHANGED err
         ELSE /\ Return(Wrap(<<"failed to download ">> \o matching[idx].Name, resp.err))
              /\ UNCHANGED bodyOpen
    /\ UNCHANGED <<listed, args, exit, cfg, client, warnings, release, matching, idx, dirs, files, touched,
                   fileOpen, branch>>

\* AssetCreate that returns the error of os.Create without closing the body
AssetCreateLeakingBody ==
    /\ pc = "asset_create"
    /\ \E ok \in BOOLEAN :
         IF ok
         THEN /\ files' = Truncated(files, AssetPath(cfg, matching[idx]), matching[idx].URL)
              /\ touched' = touched \cup {AssetPath(cfg, matching[idx])}
              /\ fileOpen' = fileOpen + 1
              /\ pc' = "asset_copy"
              /\ UNCHANGED err
         ELSE /\ Return(Wrap(<<"failed to create file ">> \o AssetPath(cfg, matching[idx]),
                             OsError))
              /\ UNCHANGED <<files, touched, fileOpen>>
    /\ UNCHANGED <<listed, args, exit, cfg, client, requests, out, release, matching, idx, dirs, branch,
                   bodyOpen, warnings>>

\* download.go 143-150: os.Create; on failure the body is closed
AssetCreate ==
    /\ pc = "asset_create"
    /\ \E ok \in BOOLEAN, bodyFails \in BOOLEAN :
         IF ok
         THEN /\ ~bodyFails
              /\ files' = Truncated(files, AssetPath(cfg, matching[idx]), matching[idx].URL)
              /\ touched' = touched \cup {AssetPath(cfg, matching[idx])}
              /\ fileOpen' = fileOpen + 1
              /\ pc' = "asset_copy"
              /\ UNCHANGED <<err, bodyOpen, warnings>>
         ELSE /\ Return(Wrap(<<"failed to create file ">> \o AssetPath(cfg, matching[idx]),
                             OsError))
              /\ bodyOpen' = bodyOpen - 1
              /\ warnings' = warnings \o CloseWarnings(FALSE, bodyFails)
              /\ UNCHANGED <<files, touched, fileOpen>>
    /\ UNCHANGED <<listed, args, exit, cfg, client, requests, out, release, matching, idx, dirs, branch>>

\* AssetCopy that goes on to the next asset when the copy failed
AssetCopyContinuingAfterFailure ==
    /\ pc = "asset_copy"
    /\ \E ok \in BOOLEAN, fileFails \in BOOLEAN, bodyFails \in BOOLEAN :
         /\ files' = Written(files, AssetPath(cfg, matching[idx]), matching[idx].URL, ok)
         /\ fileOpen' = fileOpen - 1
         /\ bodyOpen' = bodyOpen - 1
         /\ warnings' = warnings \o CloseWarnings(fileFails, bodyFails)
         /\ out' = IF ok
                   THEN [out EXCEPT ![Len(out)] =
                            @ \o <<"done (">> \o Decimal(matching[idx].Size) \o <<" bytes)">>]
                   ELSE out
         /\ idx' = idx + 1
         /\ pc' = "asset_loop"
         /\ UNCHANGED err
    /\ UNCHANGED <<listed, args, exit, cfg, client, requests, release, matching, dirs, touched, branch>>

\* AssetCopy that leaves both closes to the end of downloadAssets
AssetCopyDeferringClose ==
    /\ pc = "asset_copy"
    /\ \E ok \in BOOLEAN, fileFails \in BOOLEAN, bodyFails \in BOOLEAN :
         /\ files' = Written(files, AssetPath(cfg, matching[idx]), matching[idx].URL, ok)
         /\ IF ok
            THEN /\ out' = [out EXCEPT ![Len(out)] =
                                @ \o <<"done (">> \o Decimal(matching[idx].Size) \o <<" bytes)">>]
                 /\ idx' = idx + 1
                 /\ pc' = "asset_loop"
                 /\ fileOpen' = IF idx = Len(matching) THEN 0 ELSE fileOpen
                 /\ bodyOpen' = IF idx = Len(matching) THEN 0 ELSE bodyOpen
                 /\ warnings' = IF idx = Len(matching)
                                THEN warnings \o CloseWarnings(fileFails, bodyFails)
                                ELSE warnings
                 /\ UNCHANGED err
            ELSE /\ Return(Wrap(<<"failed to write ">> \o AssetPath(cfg, matching[idx]), OsError))
                 /\ fileOpen' = 0
                 /\ bodyOpen' = 0
                 /\ warnings' = warnings \o CloseWarnings(fileFails, bodyFails)
                 /\ UNCHANGED <<out, idx>>
    /\ UNCHANGED <<listed, args, exit, cfg, client, requests, release, matching, dirs, touched, branch>>

\* download.go 152-166: io.Copy, both closes, then the error check and the report
AssetCopy ==
    /\ pc = "asset_copy"
    /\ \E ok \in BOOLEAN, fileFails \in BOOLEAN, bodyFails \in BOOLEAN :
         /\ files' = Written(files, AssetPath(cfg, matching[idx]), matching[idx].URL, ok)
         /\ fileOpen' = fileOpen - 1
         /\ bodyOpen' = bodyOpen - 1
         /\ warnings' = warnings \o CloseWarnings(fileFails, bodyFails)
         /\ IF ok
            THEN /\ out' = [out EXCEPT ![Len(out)] =
                                @ \o <<"done (">> \o Decimal(matching[idx].Size) \o <<" bytes)">>]
                 /\ idx' = idx + 1
                 /\ pc' = "asset_loop"
                 /\ UNCHANGED err
            ELSE /\ Return(Wrap(<<"failed to write ">> \o AssetPath(cfg, matching[idx]), OsError))
                 /\ UNCHANGED <<out, idx>>
    /\ UNCHANGED <<listed, args, exit, cfg, client, requests, release, matching, dirs, touched, branch>>

\* AssetsDone that reports the number of files written instead of assets
AssetsDoneCountingFiles ==
    /\ pc = "asset_loop"
    /\ idx > Len(matching)
    /\ out' = Append(out, <<"Successfully downloaded ">>
                          \o Decimal(Cardinality({matching[j].Name : j \in 1..Len(matching)}))
                          \o <<" assets to ">> \o cfg.Directory)
    /\ Return(NoErr)
    /\ UNCHANGED <<listed, args, exit, cfg, client, requests, warnings, release, matching, idx, dirs, files,
                   touched, bodyOpen, fileOpen, branch>>

\* download.go 169-170: after the last asset
AssetsDone ==
    /\ pc = "asset_loop"
    /\ idx > Len(matching)
    /\ out' = Append(out, <<"Successfully downloaded ">> \o Decimal(Len(matching))
                          \o <<" assets to ">> \o cfg.Directory)
    /\ Return(NoErr)
    /\ UNCHANGED <<listed, args, exit, cfg, client, requests, warnings, release, matching, idx, dirs, files,
                   touched, bodyOpen, fileOpen, branch>>

Next ==
    \/ CheckRepository
    \/ CreateClient
    \/ ListReleasesStep
    \/ GetReleaseStep
    \/ PrintHeader
    \/ ListAssetsStep
    \/ ArchiveValidate
    \/ ArchiveRequest
    \/ ArchiveMkdir
    \/ ArchiveCreate
    \/ ArchiveCopy
    \/ FilterStep
    \/ AssetsMkdir
    \/ NewDownloadClient
    \/ AssetRequest
    \/ AssetCreate
    \/ AssetCopy
    \/ AssetsDone

Spec == Init /\ [][Next]_vars

----------------------------------------------------------------------------
(* package main: main and parseArgs, with flag.Parse of the Go standard
   library.  A command-line argument is a sequence of characters. *)

\* the Config once the flags are defined: every field at its default
DefaultConfig ==
    [Repository |-> <<>>, Tag |-> <<>>, Pattern |-> <<"*">>, Directory |-> <<".">>,
     Archive |-> <<>>, List |-> FALSE, Releases |-> FALSE, Help |-> FALSE]

\* var config Config
ZeroConfig ==
    [Repository |-> <<>>, Tag |-> <<>>, Pattern |-> <<>>, Directory |-> <<>>,
     Archive |-> <<>>, List |-> FALSE, Releases |-> FALSE, Help |-> FALSE]

\* the field a flag name is bound to, "" for a name that is not defined
FlagField(name) ==
    CASE name \in {<<"r", "e", "p", "o">>, <<"R">>} -> "Repository"
      [] name \in {<<"t", "a", "g">>, <<"t">>} -> "Tag"
      [] name \in {<<"p", "a", "t", "t", "e", "r", "n">>, <<"p">>} -> "Pattern"
      [] name \in {<<"d", "i", "r">>, <<"d">>} -> "Directory"
      [] name = <<"a", "r", "c", "h", "i", "v", "e">> -> "Archive"
      [] name \in {<<"l", "i", "s", "t">>, <<"l">>} -> "List"
      [] name \in {<<"r", "e", "l", "e", "a", "s", "e", "s">>, <<"r">>} -> "Releases"
      [] name \in {<<"h", "e", "l", "p">>, <<"h">>} -> "Help"
      [] OTHER -> ""

\* the fields defined with flag.BoolVar
IsBoolField(field) == field \in {"List", "Releases", "Help"}

\* strconv.ParseBool
ParseBool(value) ==
    IF value \in {<<"1">>, <<"t">>, <<"T">>, <<"T", "R", "U", "E">>, <<"t", "r", "u", "e">>, <<"T", "r", "u", "e">>}
    THEN [ok |-> TRUE, value |-> TRUE]
    ELSE IF value \in {<<"0">>, <<"f">>, <<"F">>, <<"F", "A", "L", "S", "E">>, <<"f", "a", "l", "s", "e">>, <<"F", "a", "l", "s", "e">>}
    THEN [ok |-> TRUE, value |-> FALSE]
    ELSE [ok |-> FALSE, value |-> FALSE]

\* flag.parseOne: the position of the first '=' after the first character of
\* name, 0 when there is none
EqualsIndex(name) ==
    IF \E i \in 2..Len(name) : name[i] = "="
    THEN CHOOSE i \in 2..Len(name) : name[i] = "=" /\ \A j \in 2..(i - 1) : name[j] # "="
    ELSE 0

\* flag.failf
Failf(c, a, message) == [cfg |-> c, args |-> a, err |-> message]

\* flag.Parse: parseOne until the first argument that is no flag, the
\* terminator "--", the end of the command line or an error
RECURSIVE FlagParse(_, _)
\* parseOne for the flag name (with value when hasValue), the flag removed from a
FlagSet(c, a, name, hasValue, value) ==
    IF FlagField(name) = ""
    THEN Failf(c, a, <<"flag provided but not defined: -">> \o name)
    ELSE IF IsBoolField(FlagField(name))
    THEN IF hasValue
         THEN IF ParseBool(value).ok
              THEN FlagParse([c EXCEPT ![FlagField(name)] = ParseBool(value).value], a)
              ELSE Failf(c, a, <<"invalid boolean value ">> \o value \o <<" for -">> \o name
                               \o <<": ", "parse error">>)
         ELSE FlagParse([c EXCEPT ![FlagField(name)] = TRUE], a)
    ELSE IF hasValue
    THEN FlagParse([c EXCEPT ![FlagField(name)] = value], a)
    ELSE IF Len(a) > 0
    THEN FlagParse([c EXCEPT ![FlagField(name)] = Head(a)], Tail(a))
    ELSE Failf(c, a, <<"flag needs an argument: -">> \o name)

\* parseOne once the minuses of the first argument s are removed
FlagNamed(c, a, s, name) ==
    IF Len(name) = 0 \/ name[1] = "-" \/ name[1] = "="
    THEN Failf(c, a, <<"bad flag syntax: ">> \o s)
    ELSE IF EqualsIndex(name) = 0
    THEN FlagSet(c, Tail(a), name, FALSE, <<>>)
    ELSE FlagSet(c, Tail(a), Take(name, EqualsIndex(name) - 1), TRUE,
                 Drop(name, EqualsIndex(name)))

FlagParse(c, a) ==
    IF Len(a) = 0 THEN [cfg |-> c, args |-> a, err |-> NoErr]
    ELSE IF Len(Head(a)) < 2 \/ Head(a)[1] # "-" THEN [cfg |-> c, args |-> a, err |-> NoErr]
    ELSE IF Head(a) = <<"-", "-">> THEN [cfg |-> c, args |-> Tail(a), err |-> NoErr]
    ELSE FlagNamed(c, a, Head(a), Drop(Head(a), IF Head(a)[2] = "-" THEN 2 ELSE 1))

\* PositionalFallback that lets the positional arguments replace the flags
PositionalFallbackOverriding(c, rest) ==
    [c EXCEPT !.Repository = IF Len(rest) > 0 THEN rest[1] ELSE @,
              !.Tag = IF Len(rest) > 1 THEN rest[2] ELSE @]

\* parseArgs, main.go 62-68: rest is flag.Args()
PositionalFallback(c, rest) ==
    [c EXCEPT !.Repository = IF Len(rest) > 0 /\ c.Repository = <<>> THEN rest[1] ELSE @,
              !.Tag = IF Len(rest) > 1 /\ c.Tag = <<>> THEN rest[2] ELSE @]

\* printUsage
UsageLines ==
    << <<"gh-download - Download files from GitHub releases">>,
       <<>>,
       <<"Usage:">>,
       <<"  gh download [repository] [tag] [flags]">>,
       <<>>,
       <<"Arguments:">>,
       <<"  repository    Repository in format owner/repo">>,
       <<"  tag           Release tag (optional, defaults to latest)">>,
       <<>>,
       <<"Flags:">>,
       <<"  -R, --repo string      Repository in format owner/repo">>,
       <<"  -t, --tag string       Release tag (defaults to latest)">>,
       <<"  -p, --pattern string   Glob pattern to match asset names (default \"*\")">>,
       <<"  -d, --dir string       Directory to download files to (default \".\")">>,
       <<"      --archive string   Download source archive (zip or tar.gz)">>,
       <<"  -l, --list             List release assets without downloading">>,
       <<"  -r, --releases         List all releases">>,
       <<"  -h, --help             Show help">>,
       <<>>,
       <<"Examples:">>,
       <<"  gh download owner/repo                       # Download all assets from latest release">>,
       <<"  gh download owner/repo v1.0.0                # Download all assets from v1.0.0">>,
       <<"  gh download -R owner/repo -p \"*.tar.gz\"      # Download only .tar.gz files">>,
       <<"  gh download --repo owner/repo --archive zip  # Download source code as zip">>,
       <<"  gh download --repo owner/repo --list         # List all assets without downloading">>,
       <<"  gh download --repo owner/repo --releases     # List all releases">> >>

\* main.go 27, 40-70: parseArgs.  When flag.Parse fails it prints the error
\* and the usage of the flags to standard error and exits with code 2
ParseArgsStep ==
    /\ pc = "main"
    /\ Let(FlagParse(DefaultConfig, args), LAMBDA p :
           IF p.err # NoErr
           THEN /\ warnings' = warnings \o << p.err, <<"Usage of gh-download:">> >>
                /\ exit' = 2
                /\ pc' = "exited"
                /\ UNCHANGED cfg
           ELSE /\ cfg' = PositionalFallback(p.cfg, p.args)
                /\ pc' = "parsed"
                /\ UNCHANGED <<warnings, exit>>)
    /\ UNCHANGED <<err, client, requests, out, release, matching, idx, dirs, files, touched,
                   bodyOpen, fileOpen, branch, listed, args>>

\* MainDispatch that shows the usage only when no repository was given
MainDispatchHelpWithoutRepository ==
    /\ pc = "parsed"
    /\ IF cfg.Help /\ cfg.Repository = <<>>
       THEN out' = out \o UsageLines /\ exit' = 0 /\ pc' = "exited"
       ELSE pc' = "start" /\ UNCHANGED <<out, exit>>
    /\ UNCHANGED <<cfg, err, client, requests, warnings, release, matching, idx, dirs, files,
                   touched, bodyOpen, fileOpen, branch, listed, args>>

\* main.go 29-34: help, or the call of downloadFromRelease
MainDispatch ==
    /\ pc = "parsed"
    /\ IF cfg.Help
       THEN out' = out \o UsageLines /\ exit' = 0 /\ pc' = "exited"
       ELSE pc' = "start" /\ UNCHANGED <<out, exit>>
    /\ UNCHANGED <<cfg, err, client, requests, warnings, release, matching, idx, dirs, files,
                   touched, bodyOpen, fileOpen, branch, listed, args>>

\* MainExit that exits with code 0 whatever downloadFromRelease returned
MainExitAlwaysZero ==
    /\ pc = "done"
    /\ warnings' = IF err # NoErr THEN Append(warnings, <<"Error: ">> \o err) ELSE warnings
    /\ exit' = 0
    /\ pc' = "exited"
    /\ UNCHANGED <<cfg, err, client, requests, out, release, matching, idx, dirs, files,
                   touched, bodyOpen, fileOpen, branch, listed, args>>

\* main.go 34-38: downloadFromRelease returned
MainExit ==
    /\ pc = "done"
    /\ IF err # NoErr
       THEN warnings' = Append(warnings, <<"Error: ">> \o err) /\ exit' = 1
       ELSE exit' = 0 /\ UNCHANGED warnings
    /\ pc' = "exited"
    /\ UNCHANGED <<cfg, err, client, requests, out, release, matching, idx, dirs, files,
                   touched, bodyOpen, fileOpen, branch, listed, args>>

\* the command lines of the runs of main
CommandLines ==
    { <<>>,
      <<<<"-", "-", "h", "e", "l", "p">>>>,
      <<<<"-", "h">>>>,
      <<<<"-", "x">>>>,
      <<<<"-", "-", "t", "a", "g">>>>,
      <<<<"-", "l", "=", "m", "a", "y", "b", "e">>>>,
      <<<<"o", "/", "r">>>>,
      <<<<"o", "/", "r">>, <<"v", "1">>>>,
      <<<<"o", "/", "r">>, <<"-", "-", "h", "e", "l", "p">>>>,
      <<<<"-", "l">>, <<"o", "/", "r">>>>,
      <<<<"-", "r">>, <<"o", "/", "r">>>>,
      <<<<"-", "-", "l", "i", "s", "t">>, <<"-", "-", "r", "e", "l", "e", "a", "s", "e", "s">>, <<"-", "R">>, <<"o", "/", "r">>>>,
      <<<<"-", "-", "a", "r", "c", "h", "i", "v", "e", "=", "z", "i", "p">>, <<"o", "/", "r">>>>,
      <<<<"-", "-", "a", "r", "c", "h", "i", "v", "e">>, <<"e", "x", "e">>, <<"o", "/", "r">>>>,
      <<<<"-", "p">>, <<"c">>, <<"o", "/", "r">>>>,
      <<<<"-", "d">>, <<"d">>, <<"-", "p", "=", "a">>, <<"o", "/", "r">>>>,
      <<<<"-", "R">>, <<"o", "/", "r">>, <<"-", "t">>, <<"v", "1">>, <<"-", "-", "p", "a", "t", "t", "e", "r", "n">>, <<"[">>>>,
      <<<<"-", "-", "h", "e", "l", "p", "=", "f", "a", "l", "s", "e">>, <<"-", "-">>, <<"o", "/", "r">>>>,
      <<<<"-", "h">>, <<"-", "x">>>>,
      <<<<"-", "h">>, <<"-", "r">>, <<"-", "l">>, <<"-", "-", "a", "r", "c", "h", "i", "v", "e", "=", "z", "i", "p">>>>,
      <<<<"-", "-", "r", "e", "l", "e", "a", "s", "e", "s">>, <<"-", "-", "h", "e", "l", "p">>, <<"o", "/", "r">>, <<"v", "1">>>>,
      <<<<"-", "-", "a", "r", "c", "h", "i", "v", "e">>, <<"e", "x", "e">>, <<"-", "h">>>> }

InitMain ==
    /\ args \in CommandLines
    /\ cfg = ZeroConfig
    /\ pc = "main"
    /\ err = NoErr
    /\ client = FALSE
    /\ requests = <<>>
    /\ out = <<>>
    /\ warnings = <<>>
    /\ release = <<>>
    /\ matching = <<>>
    /\ idx = 0
    /\ dirs = {}
    /\ files = NoFiles
    /\ touched = {}
    /\ bodyOpen = 0
    /\ fileOpen = 0
    /\ branch = "none"
    /\ listed = <<>>
    /\ exit = "running"

NextMain == ParseArgsStep \/ MainDispatch \/ Next \/ MainExit

SpecMain == InitMain /\ [][NextMain]_vars

----------------------------------------------------------------------------
(* parseArgs on its own: every command line of up to MaxArgs arguments *)

MaxArgs == 4

ArgPool ==
    { <<"-", "R">>,
      <<"-", "-", "r", "e", "p", "o", "=", "o", "/", "r">>,
      <<"-", "R", "=">>,
      <<"-", "t">>,
      <<"-", "-", "t", "a", "g", "=", "v", "1">>,
      <<"p", "/", "q">>,
      <<"v", "2">>,
      <<>>,
      <<"-", "-">>,
      <<"-", "l">>,
      <<"-", "x">> }

InitArgs ==
    /\ args \in SeqsUpTo(ArgPool, MaxArgs)
    /\ cfg = ZeroConfig
    /\ pc = "main"
    /\ err = NoErr
    /\ client = FALSE
    /\ requests = <<>>
    /\ out = <<>>
    /\ warnings = <<>>
    /\ release = <<>>
    /\ matching = <<>>
    /\ idx = 0
    /\ dirs = {}
    /\ files = NoFiles
    /\ touched = {}
    /\ bodyOpen = 0
    /\ fileOpen = 0
    /\ branch = "none"
    /\ listed = <<>>
    /\ exit = "running"

NextArgs == ParseArgsStep

SpecArgs == InitArgs /\ [][NextArgs]_vars

----------------------------------------------------------------------------
(* FilterAssets and ListAssets on their own: every pattern up to MaxPatLen
   characters and some longer ones, over every asset sequence up to MaxAssets *)

PatternChars == {"a", "b", "*", "?", "[", "]", "\\"}

LongerPatterns ==
    { <<"[", "a", "-", "b", "]">>, <<"[", "^", "a", "]">>, <<"[", "a", "]", "*">>,
      <<"a", "*", "[">>, <<"*", "/", "*">>, <<"a", "/", "b">>, <<"[", "a", "-">>,
      <<"\\", "*", "a">>, <<"[", "]", "a", "]">>, <<"*", "a", "b">>, <<"[", "^", "]">>,
      <<"[", "a", "-", "]", "]">>, <<"[", "\\", "]", "]">>, <<"a", "[", "b", "\\">> }

FilterPatterns == SeqsUpTo(PatternChars, MaxPatLen) \cup LongerPatterns

\* names without a character, with a separator, and names two assets share
FilterAssetPool ==
    AssetPool \cup {Asset(4, <<"a", "/", "b">>, 40), Asset(5, <<>>, 0),
                    Asset(6, <<"a", "b">>, 60)}

InitFilter ==
    /\ cfg \in [Repository : {<<"o", "/", "r">>}, Tag : {<<>>}, Pattern : FilterPatterns,
                Directory : {<<".">>}, Archive : {<<>>}, List : {TRUE}, Releases : {FALSE}]
    /\ release \in [Name : {<<"R">>}, TagName : {<<"v", "1">>}, Draft : {FALSE},
                    Prerelease : {FALSE}, PublishedAt : {<<>>},
                    Assets : SeqsUpTo(FilterAssetPool, MaxAssets)]
    /\ pc = "call"
    /\ err = NoErr
    /\ client = FALSE
    /\ requests = <<>>
    /\ out = <<>>
    /\ warnings = <<>>
    /\ matching = <<>>
    /\ idx = 0
    /\ dirs = {}
    /\ files = NoFiles
    /\ touched = {}
    /\ bodyOpen = 0
    /\ fileOpen = 0
    /\ branch = "none"
    /\ listed = <<>>
    /\ args = <<>>
    /\ exit = "running"

\* github.go 49-66: FilterAssets(assets, pattern)
CallFilterAssets ==
    /\ pc = "call"
    /\ Let(FilterAssets(release.Assets, cfg.Pattern), LAMBDA f :
           matching' = f.assets /\ err' = f.err)
    /\ pc' = "filtered"
    /\ UNCHANGED <<listed, args, exit, cfg, client, requests, out, warnings, release, idx, dirs, files,
                   touched, bodyOpen, fileOpen, branch>>

\* github.go 68-91: ListAssets(assets, pattern)
CallListAssets ==
    /\ pc = "call"
    /\ Let(ListAssets(release.Assets, cfg.Pattern), LAMBDA r :
           out' = r.out /\ err' = r.err)
    /\ pc' = "listed"
    /\ UNCHANGED <<listed, args, exit, cfg, client, requests, warnings, release, matching, idx, dirs, files,
                   touched, bodyOpen, fileOpen, branch>>

NextFilter == CallFilterAssets \/ CallListAssets

SpecFilter == InitFilter /\ [][NextFilter]_vars

----------------------------------------------------------------------------
(* Vocabulary of the properties *)

\* the syntax of a glob, read left to right: terms '*', '?', '\' c, c, and
\* classes '[' ['^'] range+ ']' whose characters are c (neither '-' nor ']')
\* or '\' c, a range being one character or lo '-' hi

\* characters taken by one character of a class at the head of p, 0 when
\* there is none
ClassCharLen(p) ==
    IF p = <<>> \/ p[1] = "-" \/ p[1] = "]" THEN 0
    ELSE IF p[1] = "\\" THEN (IF Len(p) >= 2 THEN 2 ELSE 0)
    ELSE 1

\* p after the ranges and the ']' of a class of which n ranges are read
RECURSIVE ClassRest(_, _)
ClassRest(p, n) ==
    IF p # <<>> /\ p[1] = "]" /\ n > 0 THEN [ok |-> TRUE, rest |-> Tail(p)]
    ELSE IF ClassCharLen(p) = 0 \/ Len(p) = ClassCharLen(p) THEN [ok |-> FALSE, rest |-> <<>>]
    ELSE IF p[ClassCharLen(p) + 1] # "-" THEN ClassRest(Drop(p, ClassCharLen(p)), n + 1)
    ELSE LET q == Drop(p, ClassCharLen(p) + 1)
         IN  IF ClassCharLen(q) = 0 \/ Len(q) = ClassCharLen(q)
             THEN [ok |-> FALSE, rest |-> <<>>]
             ELSE ClassRest(Drop(q, ClassCharLen(q)), n + 1)

RECURSIVE WellFormed(_)
WellFormed(p) ==
    IF p = <<>> THEN TRUE
    ELSE IF p[1] = "\\" THEN Len(p) >= 2 /\ WellFormed(Drop(p, 2))
    ELSE IF p[1] = "["
    THEN LET c == ClassRest(IF Len(p) >= 2 /\ p[2] = "^" THEN Drop(p, 2) ELSE Tail(p), 0)
         IN  c.ok /\ WellFormed(c.rest)
    ELSE WellFormed(Tail(p))

MatchesAll(pattern) == pattern = <<"*">> \/ pattern = <<>>

\* no asset of the sequence is selected by the pattern
NoAssetMatches(assets, pattern) ==
    IF MatchesAll(pattern) THEN assets = <<>>
    ELSE \A i \in 1..Len(assets) : ~Match(pattern, assets[i].Name).matched

InvalidPatternMessage(pattern) == <<"invalid pattern ", "'">> \o pattern \o <<"'">>

IsReleaseRequest(r) ==
    Contains(r.endpoint, <<"/releases/latest">>) \/ Contains(r.endpoint, <<"/releases/tags/">>)

IsReleasesRequest(r) == r.endpoint[Len(r.endpoint)] = "/releases"

IsArchiveRequest(r) ==
    Contains(r.endpoint, <<"/zipball/">>) \/ Contains(r.endpoint, <<"/tarball/">>)

IsDownloadRequest(r) == r.via = "download"

RequestsWhere(P(_)) == {i \in 1..Len(requests) : P(requests[i])}

\* nothing was created on disk and no file was created or truncated
DiskUntouched == dirs = {} /\ touched = {} /\ files \in InitialFiles(cfg)

\* the branch the precedence order gives a configuration
ExpectedBranch(c) ==
    IF c.Repository = <<>> THEN "empty_repository"
    ELSE IF c.Releases THEN "releases"
    ELSE IF c.List THEN "list"
    ELSE IF c.Archive # <<>> THEN "archive"
    ELSE "assets"

\* the requests a branch may issue
RequestAllowedIn(b, r) ==
    CASE b = "empty_repository" -> FALSE
      [] b = "releases" -> IsReleasesRequest(r)
      [] b = "list"     -> IsReleaseRequest(r)
      [] b = "archive"  -> IsReleaseRequest(r) \/ IsArchiveRequest(r)
      [] b = "assets"   -> IsReleaseRequest(r) \/ IsDownloadRequest(r)

ClientOrFetchFailed ==
    \/ Contains(err, <<"failed to create GitHub client">>)
    \/ Contains(err, <<"failed to get release">>)

----------------------------------------------------------------------------
(* C1 *)

\* C1: DownloadFromRelease enters no branch but the one that the precedence
\* order (empty repository, Releases, List, Archive, filtered download) gives
\* its Configuration, and issues only that branch's requests: none for a single
\* release when Releases is set, no archive or asset download when List is
\* set.  A run that ends without having entered a branch ended on the failure
\* to create the client or to fetch the release.
C1_BranchByPrecedence ==
    /\ branch \in {"none", ExpectedBranch(cfg)}
    /\ \A i \in 1..Len(requests) : RequestAllowedIn(ExpectedBranch(cfg), requests[i])
    /\ cfg.Releases => RequestsWhere(IsReleaseRequest) = {}
    /\ cfg.List => RequestsWhere(IsArchiveRequest) \cup RequestsWhere(IsDownloadRequest) = {}
    /\ (pc = "done" /\ branch = "none") => ClientOrFetchFailed

C1_Witness ==
    /\ pc = "done"
    /\ cfg.Releases /\ cfg.List /\ cfg.Archive = Zip
    /\ branch = "releases"
    /\ err = NoErr
    /\ Len(requests) = 1

----------------------------------------------------------------------------
(* C2 *)

\* C2: with an empty repository DownloadFromRelease returns an error that
\* contains "repository is required", whatever the other fields are, and
\* before a client is created, a request is issued, anything is printed, or a
\* directory or file is created.
C2_EmptyRepositoryFailsFirst ==
    cfg.Repository = <<>> =>
        /\ pc \in {"start", "done"}
        /\ pc = "done" => Contains(err, <<"repository is required">>)
        /\ ~client
        /\ requests = <<>>
        /\ out = <<>> /\ warnings = <<>>
        /\ DiskUntouched

C2_Witness ==
    /\ pc = "done"
    /\ cfg.Repository = <<>>
    /\ cfg.Releases /\ cfg.List /\ cfg.Archive = <<"e", "x", "e">>
    /\ err = <<"repository is required">>

----------------------------------------------------------------------------
(* C3 *)

\* C3: for a well-formed pattern other than "*" and "", FilterAssets returns
\* no error and exactly the assets whose name the pattern matches, in the
\* order of the input (a subsequence of it: nothing reordered, duplicated or
\* added); when no name matches the result is empty.
C3_FilterSelectsMatchesInOrder ==
    (pc = "filtered" /\ WellFormed(cfg.Pattern) /\ ~MatchesAll(cfg.Pattern)) =>
        /\ err = NoErr
        /\ matching = SelectSeq(release.Assets,
                                LAMBDA a : Match(cfg.Pattern, a.Name).matched)
        /\ NoAssetMatches(release.Assets, cfg.Pattern) => matching = <<>>

C3_Witness ==
    /\ pc = "filtered"
    /\ cfg.Pattern = <<"a", "*">>
    /\ Len(release.Assets) = MaxAssets
    /\ release.Assets[1].Name = <<"b">>
    /\ matching = Tail(release.Assets)
    /\ err = NoErr

----------------------------------------------------------------------------
(* C4 *)

\* C4: with the pattern "*" or the empty pattern FilterAssets returns no
\* error and the whole input in its order, for every asset sequence (the
\* empty one, names two assets share, names with a separator or with no
\* character).
C4_MatchAllReturnsInput ==
    (pc = "filtered" /\ MatchesAll(cfg.Pattern)) =>
        err = NoErr /\ matching = release.Assets

C4_Witness ==
    /\ pc = "filtered"
    /\ cfg.Pattern = <<>>
    /\ Len(release.Assets) = MaxAssets
    /\ release.Assets[1].Name = <<"a", "/", "b">>
    /\ release.Assets[MaxAssets].Name = <<"a">>
    /\ matching = release.Assets

----------------------------------------------------------------------------
(* C5 *)

\* what C5 says of a malformed pattern: FilterAssets returns an
\* "invalid pattern '<pattern>'" error and no assets, and ListAssets returns
\* that error wrapped with "failed to filter assets" and prints nothing
MalformedIsReported ==
    /\ pc = "filtered" =>
           /\ Contains(err, InvalidPatternMessage(cfg.Pattern))
           /\ matching = <<>>
    /\ pc = "listed" =>
           /\ Take(err, 2) = <<"failed to filter assets", ": ">>
           /\ Contains(Drop(err, 2), InvalidPatternMessage(cfg.Pattern))
           /\ out = <<>>

\* C5 as stated: for every malformed pattern and every asset sequence, the
\* empty one included, FilterAssets and ListAssets report the invalid pattern.
C5_MalformedAlwaysReported ==
    ~WellFormed(cfg.Pattern) => MalformedIsReported

\* C5 amended: for every malformed pattern and every asset sequence that is
\* not empty, FilterAssets and ListAssets report the invalid pattern.
C5_MalformedReportedUnlessEmpty ==
    (~WellFormed(cfg.Pattern) /\ release.Assets # <<>>) => MalformedIsReported

C5_Witness ==
    /\ pc = "listed"
    /\ cfg.Pattern = <<"a", "[">>
    /\ Len(release.Assets) = MaxAssets
    /\ release.Assets[1].Name = <<"b">>
    /\ err = <<"failed to filter assets", ": ", "invalid pattern ", "'", "a", "[", "'", ": ",
               "syntax error in pattern">>

----------------------------------------------------------------------------
(* C6 *)

\* C6: in download mode, once the release is fetched, a pattern that selects
\* no asset makes DownloadFromRelease return an error that contains the
\* pattern, without a target directory, a download request or a file.
C6_NoMatchIsFatal ==
    (pc = "done" /\ branch = "assets" /\ NoAssetMatches(release.Assets, cfg.Pattern)) =>
        /\ err # NoErr
        /\ Contains(err, Quoted(cfg.Pattern))
        /\ WellFormed(cfg.Pattern) =>
               err = <<"no assets found matching pattern ", "'">> \o cfg.Pattern \o <<"'">>
        /\ DiskUntouched
        /\ RequestsWhere(IsDownloadRequest) = {}
        /\ Len(requests) = 1

C6_Witness ==
    /\ pc = "done"
    /\ branch = "assets"
    /\ cfg.Pattern = <<"c">>
    /\ Len(release.Assets) = MaxAssets
    /\ err = <<"no assets found matching pattern ", "'", "c", "'">>

----------------------------------------------------------------------------
(* C7 *)

\* C7: whenever filtering selects no asset, and for an empty asset list under
\* every pattern, ListAssets prints the one line
\* "No assets found matching pattern '<pattern>'", no entry and no total, and
\* returns no error.
C7_ListNoMatchIsSuccess ==
    (pc = "listed"
     /\ (release.Assets = <<>>
         \/ (WellFormed(cfg.Pattern) /\ NoAssetMatches(release.Assets, cfg.Pattern)))) =>
        /\ out = << <<"No assets found matching pattern ", "'">> \o cfg.Pattern \o <<"'">> >>
        /\ err = NoErr

C7_Witness ==
    /\ pc = "listed"
    /\ release.Assets = <<>>
    /\ cfg.Pattern = <<"[">>
    /\ out = << <<"No assets found matching pattern ", "'", "[", "'">> >>
    /\ err = NoErr

----------------------------------------------------------------------------
(* C8 *)

BadArchive(c) == c.Repository # <<>> /\ c.Archive \notin {<<>>, Zip, TarGz}

\* C8 as stated, for the runs in which the client is created and every
\* request for a release succeeds: every run with a repository and an Archive
\* value that is neither empty nor "zip" nor "tar.gz" fails with an error that
\* contains "archive format must be", without an archive request, directory or
\* file.
C8_BadArchiveAlwaysFails ==
    (BadArchive(cfg) /\ pc = "done" /\ ~ClientOrFetchFailed
     /\ ~Contains(err, <<"failed to get releases">>)) =>
        /\ Contains(err, <<"archive format must be">>)
        /\ RequestsWhere(IsArchiveRequest) = {}
        /\ DiskUntouched

\* C8 amended: a run with a repository and such an Archive value issues no
\* archive request and creates no directory or file; when neither Releases nor
\* List is set it fails, with an error that contains "archive format must be"
\* once the client is created and the release fetched, and with the error of
\* the client or of the fetch otherwise.
C8_BadArchiveFailsInArchiveMode ==
    BadArchive(cfg) =>
        /\ RequestsWhere(IsArchiveRequest) = {}
        /\ DiskUntouched
        /\ (pc = "done" /\ ~cfg.Releases /\ ~cfg.List) =>
               /\ err # NoErr
               /\ Contains(err, <<"archive format must be">>) \/ ClientOrFetchFailed
               /\ Contains(err, <<"archive format must be">>) <=> branch = "archive"

C8_Witness ==
    /\ pc = "done"
    /\ cfg.Archive = <<"e", "x", "e">>
    /\ branch = "archive"
    /\ err = <<"archive format must be", " 'zip' or 'tar.gz'">>
    /\ Len(requests) = 1

----------------------------------------------------------------------------
(* C9 *)

ExpectedArchiveEndpoint(c) ==
    <<"repos/">> \o c.Repository
    \o (IF c.Archive = Zip THEN <<"/zipball/">> ELSE <<"/tarball/">>)
    \o (IF c.Tag = <<>> THEN <<"H", "E", "A", "D">> ELSE c.Tag)

\* <dir>/<repo with '/' replaced by '-'>-<ref>.<format>, as filepath.Clean
\* writes that path
ExpectedArchivePath(c) ==
    Clean(c.Directory \o <<"/">>
          \o [i \in 1..Len(c.Repository) |->
                 IF c.Repository[i] = "/" THEN "-" ELSE c.Repository[i]]
          \o <<"-">> \o (IF c.Tag = <<>> THEN <<"H", "E", "A", "D">> ELSE c.Tag)
          \o <<".">> \o c.Archive)

\* C9: with a valid format downloadArchive issues exactly one GET, to
\* repos/<repo>/zipball/<ref> for "zip" and repos/<repo>/tarball/<ref> for
\* "tar.gz", <ref> being the tag or "HEAD" without one, and writes no file but
\* <dir>/<repo with '/' replaced by '-'>-<ref>.<format>; endpoint and path are
\* functions of (repo, tag, format, dir).
C9_ArchiveEndpointAndPath ==
    (branch = "archive" /\ cfg.Archive \in {Zip, TarGz}) =>
        /\ pc = "archive_request" => RequestsWhere(IsArchiveRequest) = {}
        /\ pc # "archive_request" =>
               /\ RequestsWhere(IsArchiveRequest) = {Len(requests)}
               /\ requests[Len(requests)].method = "GET"
               /\ requests[Len(requests)].endpoint = ExpectedArchiveEndpoint(cfg)
        /\ touched \subseteq {ExpectedArchivePath(cfg)}
        /\ (pc = "done" /\ err = NoErr) =>
               /\ touched = {ExpectedArchivePath(cfg)}
               /\ files[ExpectedArchivePath(cfg)] = Content(ExpectedArchiveEndpoint(cfg), TRUE)
               /\ out[Len(out)] = <<"Downloaded archive: ">> \o ExpectedArchivePath(cfg)

C9_Witness ==
    /\ pc = "done"
    /\ branch = "archive"
    /\ err = NoErr
    /\ cfg.Tag = <<>>
    /\ cfg.Archive = TarGz
    /\ cfg.Directory = <<"d">>
    /\ touched = {<<"d", "/", "o", "-", "r", "-", "H", "E", "A", "D", ".", "t", "a", "r", ".",
                    "g", "z">>}
    /\ requests[2].endpoint = <<"repos/", "o", "/", "r", "/tarball/", "H", "E", "A", "D">>

----------------------------------------------------------------------------
(* C10 *)

ExpectedReleaseEndpoint(c) ==
    IF c.Tag = <<>>
    THEN <<"repos/">> \o c.Repository \o <<"/releases/latest">>
    ELSE <<"repos/">> \o c.Repository \o <<"/releases/tags/">> \o c.Tag

\* C10: GetRelease issues exactly one request, to repos/<repo>/releases/latest
\* without a tag and to repos/<repo>/releases/tags/<tag> with one; when the
\* request fails no second request follows.
C10_OneReleaseRequest ==
    /\ pc \in {"start", "client", "get_release"} => requests = <<>>
    /\ (client /\ ~cfg.Releases /\ pc # "get_release") =>
           /\ RequestsWhere(IsReleaseRequest) = {1}
           /\ requests[1] = [method |-> "GET", endpoint |-> ExpectedReleaseEndpoint(cfg),
                             via |-> "rest"]
           /\ Contains(err, <<"failed to get release">>) => (pc = "done" /\ Len(requests) = 1)

C10_Witness ==
    /\ pc = "done"
    /\ cfg.Tag = <<"v", "1">>
    /\ Contains(err, <<"failed to get release">>)
    /\ requests = << [method |-> "GET",
                      endpoint |-> <<"repos/", "o", "/", "r", "/releases/tags/", "v", "1">>,
                      via |-> "rest"] >>

----------------------------------------------------------------------------
(* C11 *)

\* the release request was issued and GetRelease returned a nil release
ReleaseFetchFailed == RequestsWhere(IsReleaseRequest) # {} /\ release = <<>>

\* C11: when the HTTP get fails GetRelease returns no release and the error of
\* the HTTP layer as it is; DownloadFromRelease returns that error under the
\* one context "failed to get release", having printed no header, listed or
\* filtered nothing, created no directory or file and issued no other request.
C11_FetchFailureIsWrappedOnce ==
    ReleaseFetchFailed =>
        /\ pc = "done"
        /\ \E e \in HttpErrors : err = <<"failed to get release", ": ">> \o e
        /\ out = <<>>
        /\ matching = <<>>
        /\ branch = "none"
        /\ Len(requests) = 1
        /\ DiskUntouched

C11_Witness ==
    /\ ReleaseFetchFailed
    /\ cfg.List
    /\ cfg.Tag = <<"v", "1">>
    /\ err = <<"failed to get release", ": ", "HTTP 404: Not Found">>
    /\ out = <<>>

----------------------------------------------------------------------------
(* C12 *)

\* the asset loop of downloadAssets was entered
InAssetLoop == branch = "assets" /\ idx >= 1

DownloadRequests == SelectSeq(requests, IsDownloadRequest)

SuccessLine ==
    <<"Successfully downloaded ", ToString(Len(matching)), " assets to ">> \o cfg.Directory

SuccessLineEmitted == \E i \in 1..Len(out) : out[i] = SuccessLine

\* the errors the download of matching[k] can end with
AssetErrors(k) ==
    {<<"failed to download ">> \o matching[k].Name \o <<": ">> \o e : e \in HttpErrors}
    \cup {<<"failed to create file ">> \o AssetPath(cfg, matching[k]) \o <<": ">> \o OsError,
          <<"failed to write ">> \o AssetPath(cfg, matching[k]) \o <<": ">> \o OsError}

\* the file of matching[k] was created before its download failed
CreatedBeforeFailure(k) ==
    err = <<"failed to write ">> \o AssetPath(cfg, matching[k]) \o <<": ">> \o OsError

\* the last of matching[1..upto] that is written to path
LastWriter(path, upto) ==
    CHOOSE j \in 1..upto :
        /\ AssetPath(cfg, matching[j]) = path
        /\ \A i \in (j + 1)..upto : AssetPath(cfg, matching[i]) # path

\* what C12 says of a run whose first failing download is that of matching[idx],
\* but for the files of the earlier assets
AbortsAtFirstFailure ==
    /\ idx <= Len(matching)
    /\ err \in AssetErrors(idx)
    /\ DownloadRequests = [j \in 1..idx |-> Request(matching[j].URL, "download")]
    /\ touched \subseteq {AssetPath(cfg, matching[j]) : j \in 1..idx}
    /\ ~SuccessLineEmitted

SuccessOnlyAfterAll ==
    SuccessLineEmitted =>
        /\ pc = "done"
        /\ err = NoErr
        /\ idx = Len(matching) + 1
        /\ DownloadRequests = [j \in 1..Len(matching) |-> Request(matching[j].URL, "download")]

\* C12 as stated: when the download of matching[k] is the first to fail,
\* downloadAssets returns its error, issues no request and creates no file for
\* a later asset, and the file of each earlier asset is on disk as it was
\* written; the success line is printed only after all downloads succeeded.
C12_EarlierFilesUnmodified ==
    /\ (pc = "done" /\ InAssetLoop /\ err # NoErr) =>
           /\ AbortsAtFirstFailure
           /\ \A j \in 1..(idx - 1) :
                  files[AssetPath(cfg, matching[j])] = Content(matching[j].URL, TRUE)
    /\ SuccessOnlyAfterAll

\* C12 amended: the same, the file of an earlier asset being as it was written
\* unless a later asset of the same name was created over it: each such path
\* holds what the last asset created there wrote, in part when that asset is
\* the failing one.
C12_FirstFailureAborts ==
    /\ (pc = "done" /\ InAssetLoop /\ err # NoErr) =>
           /\ AbortsAtFirstFailure
           /\ \A j \in 1..(idx - 1) :
                  LET created == IF CreatedBeforeFailure(idx) THEN idx ELSE idx - 1
                      w == LastWriter(AssetPath(cfg, matching[j]), created)
                  IN  /\ files[AssetPath(cfg, matching[j])] = Content(matching[w].URL, w < idx)
                      /\ w = j => files[AssetPath(cfg, matching[j])]
                                      = Content(matching[j].URL, TRUE)
    /\ SuccessOnlyAfterAll

C12_Witness ==
    /\ pc = "done"
    /\ InAssetLoop
    /\ Len(matching) = 2
    /\ idx = 2
    /\ matching[1].Name = <<"b">>
    /\ matching[2].Name = <<"a">>
    /\ CreatedBeforeFailure(2)
    /\ files[AssetPath(cfg, matching[1])] = Content(matching[1].URL, TRUE)
    /\ files[AssetPath(cfg, matching[2])] = Content(matching[2].URL, FALSE)

----------------------------------------------------------------------------
(* C13 *)

CloseWarningLines ==
    { <<"Warning: failed to close file", ": ", "close error">>,
      <<"Warning: failed to close response body", ": ", "close error">> }

\* C13: when downloadArchive or downloadAssets returns, on every path, no
\* response body and no file is open (nor is one between two assets); a failed
\* close prints a warning and leaves the result what the request, the
\* directory, the file creation and the copy made it: an archive run that
\* created its file succeeds exactly when the copy was complete, an asset run
\* exactly when the loop passed the last asset.
C13_ResourcesClosedOnEveryPath ==
    /\ bodyOpen \in {0, 1}
    /\ fileOpen \in {0, 1}
    /\ fileOpen <= bodyOpen
    /\ pc \in {"done", "asset_loop"} => (bodyOpen = 0 /\ fileOpen = 0)
    /\ \A i \in 1..Len(warnings) : warnings[i] \in CloseWarningLines
    /\ \A i \in 1..Len(err) : err[i] \notin {"close error", "Warning: failed to close file",
                                               "Warning: failed to close response body"}
    /\ (pc = "done" /\ branch = "archive" /\ touched # {}) =>
           (err = NoErr <=> files[ArchivePath(cfg)].complete)
    /\ (pc = "done" /\ InAssetLoop) => (err = NoErr <=> idx = Len(matching) + 1)

C13_Witness ==
    /\ pc = "done"
    /\ InAssetLoop
    /\ Contains(err, <<"failed to create file ">>)
    /\ warnings = << <<"Warning: failed to close response body", ": ", "close error">> >>
    /\ bodyOpen = 0
    /\ fileOpen = 0

----------------------------------------------------------------------------
(* C16 *)

\* ListReleases returned without error
ReleasesListed == pc = "done" /\ branch = "releases" /\ err = NoErr

IsNumberedLine(line) == Len(line) >= 2 /\ line[2] = ". "

\* the numbered lines of the listing, in the order printed
NumberedLines == SelectSeq(out, IsNumberedLine)

TagShown(i) ==
    Contains(NumberedLines[i], <<" (">> \o listed[i].TagName \o <<")">>)

NoTagShown(i) == \A k \in 1..Len(NumberedLines[i]) : NumberedLines[i][k] # " ("

\* C16 as stated: the numbered line of a release shows the tag in parentheses
\* after the name exactly when the tag differs from the name.
C16_TagShownIffDiffers ==
    ReleasesListed =>
        /\ Len(NumberedLines) = Len(listed)
        /\ \A i \in 1..Len(listed) :
               IF listed[i].TagName # listed[i].Name THEN TagShown(i) ELSE NoTagShown(i)

\* C16 amended: the numbered line of a release shows the tag in parentheses
\* after the name exactly when the tag is not empty and differs from the name.
C16_TagShownIffNonEmptyAndDiffers ==
    ReleasesListed =>
        /\ Len(NumberedLines) = Len(listed)
        /\ \A i \in 1..Len(listed) :
               IF listed[i].TagName # <<>> /\ listed[i].TagName # listed[i].Name
               THEN /\ TagShown(i)
                    /\ NumberedLines[i]
                         = SubSeq(NumberedLines[i], 1, 2 + Len(listed[i].Name))
                           \o <<" (">> \o listed[i].TagName \o <<")">>
                           \o SubSeq(NumberedLines[i],
                                     5 + Len(listed[i].Name) + Len(listed[i].TagName),
                                     Len(NumberedLines[i]))
               ELSE NoTagShown(i)

C16_Witness ==
    /\ ReleasesListed
    /\ Len(listed) = 2
    /\ listed[1].Name = <<"R">> /\ listed[1].TagName = <<"R">>
    /\ listed[2].Name = <<"R">> /\ listed[2].TagName = <<"v", "1">>
    /\ NoTagShown(1)
    /\ TagShown(2)

----------------------------------------------------------------------------
(* C17 *)

\* the line from its first " [" on
StatusPart(line) ==
    IF \E k \in 1..Len(line) : line[k] = " ["
    THEN SubSeq(line, CHOOSE k \in 1..Len(line) :
                          line[k] = " [" /\ \A j \in 1..(k - 1) : line[j] # " [",
                Len(line))
    ELSE <<>>

ExpectedStatusSuffix(draft, prerelease) ==
    IF draft /\ prerelease THEN <<" [", "draft", ", ", "prerelease", "]">>
    ELSE IF draft THEN <<" [", "draft", "]">>
    ELSE IF prerelease THEN <<" [", "prerelease", "]">>
    ELSE <<>>

\* C17: the numbered line of a release ends with the status suffix its draft
\* and prerelease flags give and nothing else does: none, " [draft]",
\* " [prerelease]" or " [draft, prerelease]".
C17_StatusSuffixByFlags ==
    ReleasesListed =>
        /\ Len(NumberedLines) = Len(listed)
        /\ \A i \in 1..Len(listed) :
               StatusPart(NumberedLines[i])
                   = ExpectedStatusSuffix(listed[i].Draft, listed[i].Prerelease)

C17_Witness ==
    /\ ReleasesListed
    /\ Len(listed) = 1
    /\ listed[1].Draft
    /\ listed[1].Prerelease
    /\ StatusPart(NumberedLines[1]) = <<" [", "draft", ", ", "prerelease", "]">>

----------------------------------------------------------------------------
(* C18 *)

\* the positions in out of the lines that satisfy P, in increasing order
PositionsWhere(P(_)) ==
    LET S == {i \in 1..Len(out) : P(out[i])}
        Nth[n \in 0..Cardinality(S)] ==
            IF n = 0 THEN 0 ELSE CHOOSE i \in S : i > Nth[n - 1] /\ \A j \in S : j > Nth[n - 1] => i <= j
    IN  [n \in 1..Cardinality(S) |-> Nth[n]]

IsAssetsLine(line) == Len(line) >= 1 /\ line[1] = "   Assets: "

\* C18: ListReleases issues one request, to repos/<repo>/releases.  When it
\* fails the error is wrapped with "failed to get releases" and nothing is
\* printed; an empty result prints only "No releases found for <repo>" and
\* succeeds; N releases print one entry each, numbered 1..N in the order of
\* the response, each with its "Assets: k" line, and "Total: N releases" last.
C18_ReleasesListing ==
    (pc = "done" /\ branch = "releases") =>
        /\ requests = << [method |-> "GET",
                          endpoint |-> <<"repos/">> \o cfg.Repository \o <<"/releases">>,
                          via |-> "rest"] >>
        /\ err # NoErr =>
               /\ \E e \in HttpErrors : err = <<"failed to get releases", ": ">> \o e
               /\ out = <<>>
        /\ (err = NoErr /\ listed = <<>>) =>
               out = << <<"No releases found for ">> \o cfg.Repository >>
        /\ (err = NoErr /\ listed # <<>>) =>
               LET np == PositionsWhere(IsNumberedLine)
                   ap == PositionsWhere(IsAssetsLine)
                   N  == Len(listed)
               IN  /\ Len(np) = N
                   /\ Len(ap) = N
                   /\ \A i \in 1..N :
                          /\ SubSeq(out[np[i]], 1, 2 + Len(listed[i].Name))
                               = <<ToString(i), ". ">> \o listed[i].Name
                          /\ out[ap[i]] = <<"   Assets: ", ToString(Len(listed[i].Assets))>>
                          /\ np[i] < ap[i]
                          /\ i < N => ap[i] < np[i + 1]
                   /\ out[Len(out)] = <<"Total: ", ToString(N), " releases">>
                   /\ \A k \in 1..(Len(out) - 1) : out[k] # out[Len(out)]

C18_Witness ==
    /\ ReleasesListed
    /\ Len(listed) = 2
    /\ Len(listed[2].Assets) = 1
    /\ out[Len(out)] = <<"Total: ", "2", " releases">>
    /\ out[Len(out) - 2] = <<"   Assets: ", "1">>

----------------------------------------------------------------------------
(* C19 *)

\* C19: a run with List or Releases set, whatever Archive, Pattern and
\* Directory are, creates no directory, creates or truncates no file, opens
\* no response body and issues neither an archive request nor an asset
\* download request.
C19_ListingNeverDownloads ==
    (cfg.List \/ cfg.Releases) =>
        /\ DiskUntouched
        /\ RequestsWhere(IsArchiveRequest) = {}
        /\ RequestsWhere(IsDownloadRequest) = {}
        /\ bodyOpen = 0
        /\ fileOpen = 0
        /\ pc \notin {"archive", "archive_request", "archive_mkdir", "archive_create",
                      "archive_copy", "filter", "assets_mkdir", "assets_client",
                      "asset_loop", "asset_create", "asset_copy"}

C19_Witness ==
    /\ pc = "done"
    /\ cfg.List
    /\ ~cfg.Releases
    /\ cfg.Archive = Zip
    /\ cfg.Directory = <<"d">>
    /\ cfg.Pattern = <<"a">>
    /\ err = NoErr
    /\ Len(out) > 2
    /\ DiskUntouched

----------------------------------------------------------------------------
(* C20 *)

\* the error FilterAssets returns for a malformed pattern
InvalidPatternError(pattern) ==
    <<"invalid pattern ", "'">> \o pattern \o <<"'", ": ", "syntax error in pattern">>

\* errors of the configuration, which wrap no other error
ConfigErrors ==
    { <<"repository is required">>,
      <<"archive format must be", " 'zip' or 'tar.gz'">>,
      <<"no assets found matching pattern ", "'">> \o cfg.Pattern \o <<"'">> }

\* the lower-level operations that can fail in branch b: the context that
\* names each and the errors the operation itself can return
FailingOperations(b) ==
    CASE b = "none" ->
           { [context |-> <<"failed to create GitHub client">>, errors |-> {OsError}],
             [context |-> <<"failed to get release">>, errors |-> HttpErrors] }
      [] b = "empty_repository" -> {}
      [] b = "releases" ->
           { [context |-> <<"failed to get releases">>, errors |-> HttpErrors] }
      [] b = "list" ->
           { [context |-> <<"failed to filter assets">>,
              errors |-> {InvalidPatternError(cfg.Pattern)}] }
      [] b = "archive" ->
           { [context |-> <<"failed to download archive">>, errors |-> HttpErrors],
             [context |-> <<"failed to create directory">>, errors |-> {OsError}],
             [context |-> <<"failed to create file">>, errors |-> {OsError}],
             [context |-> <<"failed to write file">>, errors |-> {OsError}] }
      [] b = "assets" ->
           { [context |-> <<"failed to filter assets">>,
              errors |-> {InvalidPatternError(cfg.Pattern)}],
             [context |-> <<"failed to create directory">>, errors |-> {OsError}],
             [context |-> <<"failed to create download client">>, errors |-> {OsError}] }
           \cup (IF idx \in 1..Len(matching)
                 THEN { [context |-> <<"failed to download ">> \o matching[idx].Name,
                         errors |-> HttpErrors],
                        [context |-> <<"failed to create file ">>
                                     \o AssetPath(cfg, matching[idx]),
                         errors |-> {OsError}],
                        [context |-> <<"failed to write ">> \o AssetPath(cfg, matching[idx]),
                         errors |-> {OsError}] }
                 ELSE {})

\* C20: an error DownloadFromRelease returns is an error of the configuration
\* or the error of the one lower-level operation that failed (the fetch of
\* the release or of the releases, FilterAssets in list and in download mode,
\* a request, the creation of the directory or of the file, the copy, the
\* creation of a client) under exactly one context, the one that names that
\* operation.
C20_OneLayerOfContext ==
    (pc = "done" /\ err # NoErr) =>
        \/ err \in ConfigErrors
        \/ \E op \in FailingOperations(branch) : \E e \in op.errors :
               err = op.context \o <<": ">> \o e

C20_Witness ==
    /\ pc = "done"
    /\ branch = "list"
    /\ cfg.Pattern = <<"[">>
    /\ err = <<"failed to filter assets", ": ", "invalid pattern ", "'", "[", "'", ": ",
               "syntax error in pattern">>

----------------------------------------------------------------------------
(* C14 *)

\* the process has exited
Exited == pc = "exited"

\* main saw config.Help set
HelpRequested == cfg.Help

\* downloadFromRelease was called and returned nil: it entered one of the
\* branches that can succeed and left no error
ReturnedNoError == branch \in {"releases", "list", "archive", "assets"} /\ err = NoErr

ReturnedError == err # NoErr

\* C14: the process exits with code 0 exactly when help was requested or
\* downloadFromRelease returned no error; when downloadFromRelease returned an
\* error the last line on standard error is "Error: " followed by that error
\* as it was returned, and the exit code is 1.  (A command line flag.Parse
\* rejects exits with code 2 before either.)
C14_ExitCode ==
    /\ Exited =>
           /\ exit \in {0, 1, 2}
           /\ exit = 0 <=> (HelpRequested \/ ReturnedNoError)
           /\ ReturnedError =>
                  /\ exit = 1
                  /\ Len(warnings) > 0
                  /\ warnings[Len(warnings)] = <<"Error: ">> \o err
           /\ HelpRequested => (requests = <<>> /\ branch = "none" /\ out = UsageLines)
    /\ ~Exited => exit = "running"

C14_Witness ==
    /\ Exited
    /\ exit = 1
    /\ args = << <<"-", "-", "a", "r", "c", "h", "i", "v", "e">>, <<"e", "x", "e">>, <<"o", "/", "r">> >>
    /\ warnings[Len(warnings)] = <<"Error: ", "archive format must be", " 'zip' or 'tar.gz'">>

----------------------------------------------------------------------------
(* C15 *)

\* the argument with its one or two leading minuses removed
WithoutMinuses(arg) == IF arg[2] = "-" THEN SubSeq(arg, 3, Len(arg)) ELSE Tail(arg)

HasInlineValue(arg) == \E i \in 1..Len(WithoutMinuses(arg)) : WithoutMinuses(arg)[i] = "="

\* the flag an argument names: what stands between the minuses and the first '='
NameOf(arg) ==
    LET w == WithoutMinuses(arg)
    IN  IF HasInlineValue(arg)
        THEN SubSeq(w, 1, (CHOOSE i \in 1..Len(w) :
                              w[i] = "=" /\ \A j \in 1..(i - 1) : w[j] # "=") - 1)
        ELSE w

InlineValueOf(arg) ==
    LET w == WithoutMinuses(arg)
    IN  SubSeq(w, (CHOOSE i \in 1..Len(w) : w[i] = "=" /\ \A j \in 1..(i - 1) : w[j] # "=") + 1,
               Len(w))

RepoFlagNames == {<<"r", "e", "p", "o">>, <<"R">>}
TagFlagNames == {<<"t", "a", "g">>, <<"t">>}
SwitchNames == {<<"l", "i", "s", "t">>, <<"l">>, <<"r", "e", "l", "e", "a", "s", "e", "s">>, <<"r">>, <<"h", "e", "l", "p">>, <<"h">>}

\* a command line that was accepted, read from argument i on: the value last
\* given to the repository flag and to the tag flag (repo and tag so far), and
\* the unflagged arguments, which start at the first argument that is no flag
\* or after "--"
RECURSIVE ReadCommandLine(_, _, _, _)
ReadCommandLine(a, i, repo, tag) ==
    IF i > Len(a) THEN [repo |-> repo, tag |-> tag, unflagged |-> <<>>]
    ELSE IF a[i] = <<"-", "-">>
    THEN [repo |-> repo, tag |-> tag, unflagged |-> SubSeq(a, i + 1, Len(a))]
    ELSE IF Len(a[i]) < 2 \/ a[i][1] # "-"
    THEN [repo |-> repo, tag |-> tag, unflagged |-> SubSeq(a, i, Len(a))]
    ELSE LET given == IF HasInlineValue(a[i]) THEN InlineValueOf(a[i])
                      ELSE IF i < Len(a) THEN a[i + 1] ELSE <<>>
             width == IF HasInlineValue(a[i]) \/ NameOf(a[i]) \in SwitchNames THEN 1 ELSE 2
         IN  ReadCommandLine(a, i + width,
                             IF NameOf(a[i]) \in RepoFlagNames THEN given ELSE repo,
                             IF NameOf(a[i]) \in TagFlagNames THEN given ELSE tag)

\* C15: after parseArgs the repository is the value given by --repo/-R when
\* that is not empty and the first unflagged argument otherwise, the tag the
\* value given by --tag/-t when that is not empty and the second unflagged
\* argument otherwise (empty when there is no such argument); a repository or
\* tag given by flag is never replaced by a positional argument.
C15_PositionalFallback ==
    pc = "parsed" =>
        Let(ReadCommandLine(args, 1, <<>>, <<>>), LAMBDA line :
            /\ cfg.Repository = IF line.repo # <<>> THEN line.repo
                                ELSE IF Len(line.unflagged) >= 1 THEN line.unflagged[1]
                                ELSE <<>>
            /\ cfg.Tag = IF line.tag # <<>> THEN line.tag
                         ELSE IF Len(line.unflagged) >= 2 THEN line.unflagged[2]
                         ELSE <<>>)

C15_Witness ==
    /\ pc = "parsed"
    /\ args = << <<"-", "-", "r", "e", "p", "o", "=", "o", "/", "r">>, <<"p", "/", "q">>, <<"v", "2">> >>
    /\ cfg.Repository = <<"o", "/", "r">>
    /\ cfg.Tag = <<"v", "2">>

(* C21 *)

\* an argument spelled as a flag
FlagLike(arg) == Len(arg) >= 2 /\ arg[1] = "-" /\ arg # <<"-", "-">>

\* the number of arguments before the first one spelled as a flag
LeadingPositionals(a) ==
    IF \E i \in 1..Len(a) : FlagLike(a[i])
    THEN (CHOOSE i \in 1..Len(a) : FlagLike(a[i]) /\ \A j \in 1..(i - 1) : ~FlagLike(a[j])) - 1
    ELSE Len(a)

\* a flag that needs no following argument: a switch, or a flag with its value inline
SelfContainedFlag(arg) ==
    /\ FlagLike(arg)
    /\ \/ ~HasInlineValue(arg) /\ NameOf(arg) \in SwitchNames
       \/ HasInlineValue(arg) /\ NameOf(arg) \in RepoFlagNames \cup TagFlagNames

\* the usage line's form: a repository, an optional tag, then flags
DocumentedForm(a) ==
    /\ LeadingPositionals(a) \in {1, 2}
    /\ Len(a) > LeadingPositionals(a)
    /\ \A i \in 1..LeadingPositionals(a) : a[i] # <<>> /\ a[i] # <<"-", "-">>
    /\ \A i \in (LeadingPositionals(a) + 1)..Len(a) : SelfContainedFlag(a[i])

\* C21: a command line in the documented form "[repository] [tag] [flags]" is
\* parsed as written: a --list/-l given after the positional arguments sets
\* List, a --tag given after them sets the tag, and no argument spelled as a
\* flag is taken as the repository or the tag.
C21_TrailingFlagsAreParsed ==
    pc = "parsed" /\ DocumentedForm(args) =>
        /\ (\E i \in 1..Len(args) : args[i] = <<"-", "l">>) => cfg.List
        /\ (\E i \in 1..Len(args) : FlagLike(args[i]) /\ NameOf(args[i]) \in TagFlagNames) =>
               cfg.Tag = <<"v", "1">>
        /\ ~FlagLike(cfg.Repository)
        /\ ~FlagLike(cfg.Tag)

(* C22 *)

\* C22: the asset loop handles one asset at a time: while matching[idx] is
\* requested, created and copied, the requests issued are those of
\* matching[1..idx] in order, and only its response body (from the request on)
\* and its file (from the creation on) are open; between two assets, when the
\* next request is issued, no body and no file is open.
C22_OneAssetAtATime ==
    /\ bodyOpen <= 1
    /\ fileOpen <= 1
    /\ (InAssetLoop /\ pc = "asset_loop") =>
           /\ bodyOpen = 0
           /\ fileOpen = 0
           /\ DownloadRequests = [j \in 1..(idx - 1) |-> Request(matching[j].URL, "download")]
    /\ pc = "asset_create" =>
           /\ bodyOpen = 1
           /\ fileOpen = 0
           /\ DownloadRequests = [j \in 1..idx |-> Request(matching[j].URL, "download")]
    /\ pc = "asset_copy" =>
           /\ bodyOpen = 1
           /\ fileOpen = 1
           /\ DownloadRequests = [j \in 1..idx |-> Request(matching[j].URL, "download")]

\* the second asset was requested after the first was written and closed
C22_Witness ==
    /\ pc = "asset_create"
    /\ idx = 2
    /\ Len(DownloadRequests) = 2
    /\ bodyOpen = 1
    /\ fileOpen = 0
    /\ AssetPath(cfg, matching[1]) \in touched

(* C23 *)

IsHeaderLine(line) == Len(line) >= 1 /\ line[1] = "Release: "

HeaderPositions == {i \in 1..Len(out) : IsHeaderLine(out[i])}

\* the annotation the header gives a configured tag
HeaderAnnotation(tag) ==
    IF tag = <<>> THEN <<" (latest)">> ELSE <<" (tag: ", tag[1]>> \o Tail(tag) \o <<")">>

\* C23: the header "Release: <name> (tag: <tag>) from <repo>", with
\* "(latest)" in place of the tag annotation when no tag was configured, is
\* printed once in every run that fetched a release, as the first line of
\* output, when nothing but the release request was issued and no directory or
\* file was created; it is never printed in Releases mode or when the fetch
\* failed.
C23_HeaderOnceAfterFetch ==
    /\ release = <<>> => HeaderPositions = {}
    /\ branch = "releases" => HeaderPositions = {}
    /\ pc = "header" =>
           /\ release # <<>>
           /\ out = <<>>
           /\ dirs = {}
           /\ touched = {}
           /\ requests = << Request(ExpectedReleaseEndpoint(cfg), "rest") >>
    /\ (release # <<>> /\ pc # "header") =>
           /\ HeaderPositions = {1}
           /\ out[1] = <<"Release: ">> \o release.Name \o HeaderAnnotation(cfg.Tag)
                       \o <<" from ">> \o cfg.Repository

\* a run without a tag that downloaded the assets of release v2
C23_Witness ==
    /\ pc = "done"
    /\ branch = "assets"
    /\ err = NoErr
    /\ cfg.Tag = <<>>
    /\ release # <<>>
    /\ release.TagName = <<"v", "2">>
    /\ Len(out) > 1
    /\ out[1] = <<"Release: ", "R", " (latest)", " from ", "o", "/", "r">>

(* C24 *)

IsPublishedLine(line) == Len(line) >= 1 /\ line[1] = "   Published: "

\* the date shown for a timestamp: its first ten characters, or all of it
ShownDate(ts) == [k \in 1..(IF Len(ts) >= 10 THEN 10 ELSE Len(ts)) |-> ts[k]]

\* C24: in the releases listing an entry has a "Published:" line, between its
\* numbered line and its "Assets:" line, exactly when the timestamp of the
\* release is not empty; the line shows the first ten characters of a
\* timestamp of ten characters or more and the whole of a shorter one.
C24_PublishedLine ==
    (ReleasesListed /\ listed # <<>>) =>
        LET np == PositionsWhere(IsNumberedLine)
            ap == PositionsWhere(IsAssetsLine)
        IN  /\ Len(np) = Len(listed)
            /\ Len(ap) = Len(listed)
            /\ Cardinality({k \in 1..Len(out) : IsPublishedLine(out[k])})
                 = Cardinality({i \in 1..Len(listed) : listed[i].PublishedAt # <<>>})
            /\ \A i \in 1..Len(listed) :
                   IF listed[i].PublishedAt = <<>>
                   THEN ap[i] = np[i] + 1
                   ELSE /\ ap[i] = np[i] + 2
                        /\ out[np[i] + 1] = <<"   Published: ">> \o ShownDate(listed[i].PublishedAt)

\* a listing of a release with a timestamp of eleven characters and one of four
C24_Witness ==
    /\ ReleasesListed
    /\ Len(listed) = 2
    /\ Len(listed[1].PublishedAt) = 11
    /\ Len(listed[2].PublishedAt) = 4
    /\ out[4] = <<"   Published: ", "2", "0", "2", "3", "-", "1", "2", "-", "0", "1">>
    /\ out[8] = <<"   Published: ", "2", "0", "2", "3">>

(* C25 *)

\* <dir>/<name> as the file system resolves it
FileNamed(name) == Clean(cfg.Directory \o <<"/">> \o name)

\* the last of the matching assets that has the name of matching[k]
LastNamedLike(k) ==
    CHOOSE j \in k..Len(matching) :
        /\ matching[j].Name = matching[k].Name
        /\ \A i \in (j + 1)..Len(matching) : matching[i].Name # matching[k].Name

DownloadSucceeded == pc = "done" /\ branch = "assets" /\ err = NoErr

\* C25: after downloadAssets succeeded, for every matching asset the file
\* <dir>/<name> holds the complete content of the last matching asset of that
\* name, whatever an earlier asset of the same name or a file that was there
\* before had put in it; only these files were created or truncated, nothing
\* but a failed close was warned about, and the success line counts the
\* assets, not the files.
C25_LastAssetWins ==
    DownloadSucceeded =>
        /\ idx = Len(matching) + 1
        /\ \A k \in 1..Len(matching) :
               /\ FileNamed(matching[k].Name) \in DOMAIN files
               /\ files[FileNamed(matching[k].Name)]
                    = Content(matching[LastNamedLike(k)].URL, TRUE)
        /\ touched = {FileNamed(matching[k].Name) : k \in 1..Len(matching)}
        /\ \A i \in 1..Len(warnings) : warnings[i] \in CloseWarningLines
        /\ out[Len(out)] = <<"Successfully downloaded ", ToString(Len(matching)), " assets to ">>
                           \o cfg.Directory

\* two assets named "a" were downloaded into the same file
C25_Witness ==
    /\ DownloadSucceeded
    /\ Len(matching) = 2
    /\ matching[1].Name = <<"a">>
    /\ matching[2].Name = <<"a">>
    /\ matching[1].URL # matching[2].URL
    /\ cfg.Directory = <<"d">>
    /\ touched = {<<"d", "/", "a">>}
    /\ files[<<"d", "/", "a">>] = Content(matching[2].URL, TRUE)
    /\ out[Len(out)] = <<"Successfully downloaded ", "2", " assets to ", "d">>

(* C26 *)

\* C26: when parseArgs returned a configuration with Help set, whatever the
\* repository, the tag and the other flags are, main prints the usage text
\* and exits with code 0 and downloadFromRelease is never entered: the
\* repository is not checked, no client is created, no request is issued,
\* nothing is created on disk and nothing is written to standard error.
C26_HelpShortCircuits ==
    cfg.Help =>
        /\ pc \in {"parsed", "exited"}
        /\ branch = "none"
        /\ err = NoErr
        /\ client = FALSE
        /\ requests = <<>>
        /\ dirs = {}
        /\ touched = {}
        /\ warnings = <<>>
        /\ pc = "parsed" => out = <<>> /\ exit = "running"
        /\ pc = "exited" => out = UsageLines /\ exit = 0

\* help together with --releases, a repository and a tag
C26_Witness ==
    /\ pc = "exited"
    /\ exit = 0
    /\ cfg.Help
    /\ cfg.Releases
    /\ cfg.Repository = <<"o", "/", "r">>
    /\ cfg.Tag = <<"v", "1">>
    /\ out = UsageLines
    /\ requests = <<>>

(* C27 *)

ArchiveRequested == RequestsWhere(IsArchiveRequest) # {}

\* C27: the archive request and the archive file are given by the repository,
\* tag, format and directory of the configuration alone, whatever release was
\* fetched: without a configured tag the archive of "HEAD" is requested and
\* written, under a header that says "(latest)", and the tag of the release
\* fetched appears in neither; the archive is requested only after the release
\* request succeeded and never when it failed.
C27_ArchiveIndependentOfRelease ==
    /\ ReleaseFetchFailed => (~ArchiveRequested /\ touched = {})
    /\ ArchiveRequested =>
           /\ release # <<>>
           /\ Len(requests) = 2
           /\ requests[1] = Request(ExpectedReleaseEndpoint(cfg), "rest")
           /\ requests[2] = Request(ExpectedArchiveEndpoint(cfg), "rest")
           /\ touched \subseteq {ExpectedArchivePath(cfg)}
           /\ cfg.Tag = <<>> =>
                  /\ Contains(out[1], <<" (latest)">>)
                  /\ Contains(requests[2].endpoint, <<"H", "E", "A", "D">>)
                  /\ ~Contains(requests[2].endpoint, release.TagName)
                  /\ \A p \in touched :
                         Contains(p, <<"H", "E", "A", "D">>) /\ ~Contains(p, release.TagName)

\* the latest release is v2 and the archive of HEAD was written
C27_Witness ==
    /\ pc = "done"
    /\ branch = "archive"
    /\ err = NoErr
    /\ cfg.Tag = <<>>
    /\ cfg.Archive = Zip
    /\ release # <<>>
    /\ release.TagName = <<"v", "2">>
    /\ out[1] = <<"Release: ", "R", " (latest)", " from ", "o", "/", "r">>
    /\ requests[2].endpoint = <<"repos/", "o", "/", "r", "/zipball/", "H", "E", "A", "D">>
    /\ touched = {<<"o", "-", "r", "-", "H", "E", "A", "D", ".", "z", "i", "p">>}

(* C28 *)

\* the request for matching[k] failed
RequestFailed(k) ==
    \E e \in HttpErrors : err = <<"failed to download ">> \o matching[k].Name \o <<": ">> \o e

\* copying the body of matching[k] into its file failed
StreamingFailed(k) ==
    err = <<"failed to write ">> \o FileNamed(matching[k].Name) \o <<": ">> \o OsError

\* the assets before matching[k] that are written to the same file
EarlierNamedLike(k) == {j \in 1..(k - 1) : matching[j].Name = matching[k].Name}

\* the file of matching[k] is as the assets before matching[k] left it
AsBeforeAsset(k) ==
    IF EarlierNamedLike(k) = {}
    THEN /\ FileNamed(matching[k].Name) \notin touched
         /\ FileNamed(matching[k].Name) \in DOMAIN files =>
                files[FileNamed(matching[k].Name)] = OldContent
    ELSE /\ FileNamed(matching[k].Name) \in DOMAIN files
         /\ files[FileNamed(matching[k].Name)]
              = Content(matching[CHOOSE j \in EarlierNamedLike(k) :
                                     \A i \in EarlierNamedLike(k) : i <= j].URL, TRUE)

\* C28: the file of an asset is created or truncated only after the request
\* for that asset succeeded: while the response is awaited or was refused the
\* file is as the earlier assets left it (a file that was there before keeps
\* its content), and when the copy fails part-way the file stays on disk with
\* the part that was written.
C28_FileOnlyAfterRequest ==
    /\ (InAssetLoop /\ pc = "asset_create") =>
           /\ Len(DownloadRequests) = idx
           /\ bodyOpen = 1
           /\ AsBeforeAsset(idx)
    /\ (InAssetLoop /\ pc = "done" /\ idx <= Len(matching) /\ RequestFailed(idx)) =>
           /\ Len(DownloadRequests) = idx
           /\ AsBeforeAsset(idx)
    /\ (InAssetLoop /\ pc = "done" /\ idx <= Len(matching) /\ StreamingFailed(idx)) =>
           /\ FileNamed(matching[idx].Name) \in touched
           /\ FileNamed(matching[idx].Name) \in DOMAIN files
           /\ files[FileNamed(matching[idx].Name)] = Content(matching[idx].URL, FALSE)

\* the request for "a" was refused and the file "a" that was there is as it was
C28_Witness ==
    /\ InAssetLoop
    /\ pc = "done"
    /\ idx = 1
    /\ RequestFailed(1)
    /\ matching[1].Name = <<"a">>
    /\ touched = {}
    /\ FileNamed(<<"a">>) \in DOMAIN files
    /\ files[FileNamed(<<"a">>)] = OldContent

\* the copy of the second asset failed and its partial file is on disk
C28_WitnessPartial ==
    /\ InAssetLoop
    /\ pc = "done"
    /\ Len(matching) = 2
    /\ idx = 2
    /\ StreamingFailed(2)
    /\ files[FileNamed(matching[2].Name)] = Content(matching[2].URL, FALSE)

(* C29 *)

\* path names a file directly in dir: <dir>/<base>, or <base> alone when dir is
\* ".", where base has no separator and is neither "." nor ".."
DirectChildOf(path, dir) ==
    LET prefix == IF dir = <<".">> THEN <<>> ELSE dir \o <<"/">>
    IN  /\ Len(path) > Len(prefix)
        /\ SubSeq(path, 1, Len(prefix)) = prefix
        /\ \A i \in (Len(prefix) + 1)..Len(path) : path[i] # "/"
        /\ SubSeq(path, Len(prefix) + 1, Len(path)) \notin {<<".">>, <<".", ".">>}

\* C29: every file the program creates or truncates is a direct child of the
\* target directory, whatever the names of the assets and, in archive mode,
\* whatever the repository and the tag are (a '/' in them included).
C29_FilesAreDirectChildren ==
    \A p \in touched : DirectChildOf(p, cfg.Directory)

====
